---- MODULE Spec2Model ----
(***************************************************************************)
(* StoreSchedulerBot: the schedule text protocol (regex codec), the        *)
(* Meridiem time algebra, the slot-ownership engine and the command        *)
(* handlers that read, mutate and write back the persisted schedule text.  *)
(*                                                                         *)
(* Text is a sequence of one-character strings.  The regular expressions   *)
(* of the source are written as data and matched by a backtracking matcher *)
(* with Python's priorities (greedy, leftmost alternative first).          *)
(***************************************************************************)
EXTENDS Integers, Sequences, FiniteSets, TLC

(***************************************************************************)
(* Bounds of the model.                                                    *)
(***************************************************************************)
MaxTasks == 2
MaxData == 1
MaxMessages == 2

(***************************************************************************)
(* Characters and small text helpers.                                      *)
(***************************************************************************)
NL == "\n"
TAB == "\t"
CR == "\r"
SP == " "
Blank == {SP, TAB}
Digits == {"0", "1", "2", "3", "4", "5", "6", "7", "8", "9"}
DigitSeq == <<"0", "1", "2", "3", "4", "5", "6", "7", "8", "9">>
LowerSeq == <<"a", "b", "c", "d", "e", "f", "g", "h", "i", "j", "k", "l", "m",
              "n", "o", "p", "q", "r", "s", "t", "u", "v", "w", "x", "y", "z">>
UpperSeq == <<"A", "B", "C", "D", "E", "F", "G", "H", "I", "J", "K", "L", "M",
              "N", "O", "P", "Q", "R", "S", "T", "U", "V", "W", "X", "Y", "Z">>
Letters == {LowerSeq[i] : i \in 1..26} \cup {UpperSeq[i] : i \in 1..26}
WordChars == Letters \cup Digits \cup {"_"}
Whitespace == {SP, TAB, NL, CR}

\* str.lower() on one character
LowerChar(c) ==
    IF \E i \in 1..26 : UpperSeq[i] = c
    THEN LowerSeq[CHOOSE i \in 1..26 : UpperSeq[i] = c]
    ELSE c

\* both cases of a character: a literal matched under re.IGNORECASE
BothCases(c) ==
    {c} \cup {LowerSeq[i] : i \in {j \in 1..26 : UpperSeq[j] = c}}
        \cup {UpperSeq[i] : i \in {j \in 1..26 : LowerSeq[j] = c}}

DigitVal(c) == (CHOOSE i \in 1..10 : DigitSeq[i] = c) - 1

RECURSIVE ParseInt(_)
\* int(text) for a text of decimal digits
ParseInt(t) ==
    IF t = <<>> THEN 0
    ELSE 10 * ParseInt(SubSeq(t, 1, Len(t) - 1)) + DigitVal(t[Len(t)])

RECURSIVE FormatInt(_)
\* str(n) for n >= 0
FormatInt(n) ==
    IF n < 10 THEN <<DigitSeq[n + 1]>>
    ELSE FormatInt(n \div 10) \o <<DigitSeq[(n % 10) + 1]>>

\* f'{n:02}'
FormatInt02(n) == IF n < 10 THEN <<"0">> \o FormatInt(n) ELSE FormatInt(n)

RECURSIVE LStrip(_, _)
LStrip(t, cs) == IF t # <<>> /\ t[1] \in cs THEN LStrip(Tail(t), cs) ELSE t

RECURSIVE RStrip(_, _)
RStrip(t, cs) ==
    IF t # <<>> /\ t[Len(t)] \in cs THEN RStrip(SubSeq(t, 1, Len(t) - 1), cs) ELSE t

\* str.strip()
Strip(t) == LStrip(RStrip(t, Whitespace), Whitespace)

RECURSIVE Join(_, _)
\* sep.join(parts)
Join(parts, sep) ==
    IF parts = <<>> THEN <<>>
    ELSE IF Len(parts) = 1 THEN parts[1]
    ELSE parts[1] \o sep \o Join(Tail(parts), sep)

\* str.split(c) for a one-character separator
Split(t, c) ==
    LET cuts == {i \in 1..Len(t) : t[i] = c}
        \* start and end of the n-th piece
        begin(n) == IF n = 1 THEN 1
                    ELSE 1 + CHOOSE i \in cuts : Cardinality({j \in cuts : j < i}) = n - 2
        finish(n) == IF n = Cardinality(cuts) + 1 THEN Len(t)
                     ELSE (CHOOSE i \in cuts : Cardinality({j \in cuts : j < i}) = n - 1) - 1
    IN [n \in 1..(Cardinality(cuts) + 1) |-> SubSeq(t, begin(n), finish(n))]

(***************************************************************************)
(* Regular expressions as data, and Python's backtracking match.  A        *)
(* repetition applies to a one-character class, as in every pattern of the *)
(* source.                                                                 *)
(***************************************************************************)
RSet(S) == <<"set", S>>
RNot(S) == <<"nset", S>>
RChr(c) == <<"set", {c}>>
RAny == <<"nset", {}>>
RSeq(rs) == <<"seq", rs>>
RAlt(a, b) == <<"alt", a, b>>
ROpt(a) == <<"opt", a>>
\* cls*  cls+  cls*?
RStar(cls) == <<"star", cls, 0>>
RPlus(cls) == <<"star", cls, 1>>
RLazy(cls) == <<"lazy", cls>>
RGrp(n, a) == <<"grp", n, a>>
RLook(a) == <<"look", a>>
\* $ without and with re.MULTILINE, ^ with re.MULTILINE
REnd == <<"end">>
REol == <<"eol">>
RBol == <<"bol">>
\* a literal string; under re.IGNORECASE a letter matches in both cases
RLit(t) == <<"lit", [i \in 1..Len(t) |-> {t[i]}]>>
RLitI(t) == <<"lit", [i \in 1..Len(t) |-> BothCases(t[i])]>>
\* x{1,2}
ROneTwo(a) == <<"seq", <<a, <<"opt", a>>>>>>

MaxGroup == 5
NoGroup == <<0, 0>>
NoCaps == [n \in 0..MaxGroup |-> NoGroup]
NoMatch == [ok |-> FALSE, start |-> 0, pos |-> 0, caps |-> NoCaps]

InClass(cls, c) == IF cls[1] = "set" THEN c \in cls[2] ELSE c \notin cls[2]

\* the position after the longest run of characters of cls from i on
RunEnd(s, i, cls) ==
    CHOOSE j \in i..(Len(s) + 1) :
        /\ (j = Len(s) + 1 \/ ~InClass(cls, s[j]))
        /\ \A k \in i..(j - 1) : InClass(cls, s[k])

\* a class of characters: the members of chars, or all the others
AnyChar == [neg |-> TRUE, chars |-> {}]
ClassUnion(a, b) ==
    CASE ~a.neg /\ ~b.neg -> [neg |-> FALSE, chars |-> a.chars \cup b.chars]
      [] a.neg /\ b.neg -> [neg |-> TRUE, chars |-> a.chars \cap b.chars]
      [] a.neg /\ ~b.neg -> [neg |-> TRUE, chars |-> a.chars \ b.chars]
      [] ~a.neg /\ b.neg -> [neg |-> TRUE, chars |-> b.chars \ a.chars]

RECURSIVE First(_)
\* the characters a match of the nodes rs can start at (a superset): it
\* only prunes the positions where an attempt cannot succeed
First(rs) ==
    IF rs = <<>> THEN AnyChar
    ELSE
      LET r == rs[1]
          k == Tail(rs)
          tag == r[1]
          cls == [neg |-> r[2][1] = "nset", chars |-> r[2][2]]
      IN
      CASE tag = "set" -> [neg |-> FALSE, chars |-> r[2]]
        [] tag = "nset" -> [neg |-> TRUE, chars |-> r[2]]
        [] tag = "lit" -> [neg |-> FALSE, chars |-> r[2][1]]
        [] tag = "seq" -> First(r[2] \o k)
        [] tag = "alt" -> ClassUnion(First(<<r[2]>> \o k), First(<<r[3]>> \o k))
        [] tag = "opt" -> ClassUnion(First(<<r[2]>> \o k), First(k))
        [] tag = "star" -> IF r[3] = 0 THEN ClassUnion(cls, First(k)) ELSE cls
        [] tag = "lazy" -> ClassUnion(cls, First(k))
        [] tag = "grp" -> First(<<r[3]>> \o k)
        [] tag = "close" -> First(k)
        [] tag = "look" -> First(<<r[2]>>)
        [] tag \in {"end", "eol"} -> [neg |-> FALSE, chars |-> {NL}]
        [] tag = "bol" -> First(k)

\* position i of s is past the end or holds a character of the class f
CanStart(f, s, i) == i > Len(s) \/ ((s[i] \in f.chars) # f.neg)

RECURSIVE MatchSeq(_, _, _, _)
RECURSIVE TryFrom(_, _, _, _, _)
\* the first success of the nodes k at one of the positions js, tried in
\* descending order (greedy) or ascending order (lazy)
TryFrom(k, s, js, greedy, caps) ==
    IF js = {} THEN NoMatch
    ELSE LET j == IF greedy THEN CHOOSE x \in js : \A y \in js : y <= x
                  ELSE CHOOSE x \in js : \A y \in js : x <= y
             m == MatchSeq(k, s, j, caps)
         IN IF m.ok THEN m ELSE TryFrom(k, s, js \ {j}, greedy, caps)

\* match the nodes rs, one after the other, against s from position i
\* (1-based): the first success in backtracking order
MatchSeq(rs, s, i, caps) ==
    IF rs = <<>> THEN [ok |-> TRUE, start |-> 0, pos |-> i, caps |-> caps]
    ELSE
      LET r == rs[1]
          k == Tail(rs)
          tag == r[1]
      IN
      CASE tag \in {"set", "nset"} ->
             IF i <= Len(s) /\ InClass(r, s[i]) THEN MatchSeq(k, s, i + 1, caps) ELSE NoMatch
        [] tag = "lit" ->
             IF i + Len(r[2]) - 1 <= Len(s) /\ \A j \in 1..Len(r[2]) : s[i + j - 1] \in r[2][j]
             THEN MatchSeq(k, s, i + Len(r[2]), caps) ELSE NoMatch
        [] tag = "seq" -> MatchSeq(r[2] \o k, s, i, caps)
        [] tag = "alt" ->
             LET m == MatchSeq(<<r[2]>> \o k, s, i, caps)
             IN IF m.ok THEN m ELSE MatchSeq(<<r[3]>> \o k, s, i, caps)
        [] tag = "opt" ->
             LET m == MatchSeq(<<r[2]>> \o k, s, i, caps)
             IN IF m.ok THEN m ELSE MatchSeq(k, s, i, caps)
        [] tag = "star" ->
             \* greedy: the longest run first, then shorter ones
             LET f == First(k)
             IN TryFrom(k, s, {j \in (i + r[3])..RunEnd(s, i, r[2]) : CanStart(f, s, j)},
                        TRUE, caps)
        [] tag = "lazy" ->
             \* lazy: the shortest run first
             LET f == First(k)
             IN TryFrom(k, s, {j \in i..RunEnd(s, i, r[2]) : CanStart(f, s, j)},
                        FALSE, caps)
        [] tag = "grp" -> MatchSeq(<<r[3], <<"close", r[2], i>>>> \o k, s, i, caps)
        [] tag = "close" ->
             MatchSeq(k, s, i, [caps EXCEPT ![r[2]] = <<r[3], i>>])
        [] tag = "look" ->
             IF MatchSeq(<<r[2]>>, s, i, caps).ok THEN MatchSeq(k, s, i, caps) ELSE NoMatch
        [] tag = "end" ->
             IF i = Len(s) + 1 \/ (i = Len(s) /\ s[i] = NL)
             THEN MatchSeq(k, s, i, caps) ELSE NoMatch
        [] tag = "eol" ->
             IF i = Len(s) + 1 \/ (i <= Len(s) /\ s[i] = NL)
             THEN MatchSeq(k, s, i, caps) ELSE NoMatch
        [] tag = "bol" ->
             IF i = 1 \/ (i > 1 /\ s[i - 1] = NL)
             THEN MatchSeq(k, s, i, caps) ELSE NoMatch

\* the match of re in s that starts at position i
MatchAt(re, s, i) == [MatchSeq(<<re>>, s, i, NoCaps) EXCEPT !.start = i]

\* re.match(re, s): a match anchored at the start of s
ReMatch(re, s) == MatchAt(re, s, 1)

\* match.start() of a match whose group 0 was recorded as a capture
StartOfGroup0(m) == IF m.ok THEN [m EXCEPT !.start = m.caps[0][1]] ELSE m

\* re.search from position p on: the leftmost match at or after p
SearchFrom(re, s, p) ==
    LET f == First(<<re>>)
    IN StartOfGroup0(TryFrom(<<<<"grp", 0, re>>>>, s,
                             {i \in p..Len(s) : CanStart(f, s, i)}, FALSE, NoCaps))

RECURSIVE FindIterFrom(_, _, _)
\* the matches of re in s from the match m on: m and those after its end
FindIterNext(re, s, m) == IF ~m.ok THEN <<>> ELSE <<m>> \o FindIterFrom(re, s, m.pos)

\* the successive non-overlapping matches of re in s, leftmost first, from
\* position p on (for a pattern that matches no empty string)
FindIterFrom(re, s, p) ==
    IF p > Len(s) THEN <<>> ELSE FindIterNext(re, s, SearchFrom(re, s, p))

\* re.finditer(re, s)
ReFindIter(re, s) == FindIterFrom(re, s, 1)

\* match.group(n); Present(m, n) is false where Python gives None
Present(m, n) == m.caps[n] # NoGroup
Group(s, m, n) == IF Present(m, n) THEN SubSeq(s, m.caps[n][1], m.caps[n][2] - 1) ELSE <<>>
Group0(s, m) == SubSeq(s, m.start, m.pos - 1)

(***************************************************************************)
(* Results of operations that may raise.                                   *)
(***************************************************************************)
Ok(v) == [ok |-> TRUE, err |-> "", v |-> v]
Raise(e) == [ok |-> FALSE, err |-> e]
\* the statements F after a call that returned x: a raised exception
\* propagates, a value goes on into F
Bind(x, F(_)) == IF x.ok THEN F(x.v) ELSE x

\* Python's None where a value may be absent
None == [kind |-> "none"]

(***************************************************************************)
(* util/time.py: MeridiemTime and TimeTick.  A time is the 24-hour clock   *)
(* value of datetime.time plus the phase; a tick is a signed number of     *)
(* minutes.                                                                *)
(***************************************************************************)
RDigit == RSet(Digits)
\* [a-z|A-Z]
RMeridiemChar == RSet(Letters \cup {"|"})

\* MeridiemTime.MATCHER
MeridiemTime_MATCHER ==
    RSeq(<<RGrp(1, ROneTwo(RDigit)), RChr(":"), RGrp(2, ROneTwo(RDigit)),
           RStar(RSet(Whitespace)),
           ROpt(RGrp(3, RSeq(<<RMeridiemChar, RMeridiemChar>>)))>>)

Time(h, m, phase) == [h |-> h, m |-> m, phase |-> phase]

\* MeridiemTime.hour: the 12-hour clock hour
Hour12(t) == IF t.h = 0 THEN 12 ELSE IF t.h > 12 THEN t.h - 12 ELSE t.h

\* MeridiemTime.meridiem
Meridiem(t) == IF t.h \div 12 = 0 THEN <<"a", "m">> ELSE <<"p", "m">>

\* MeridiemTime.__repr__ / __str__
TimeStr(t) == FormatInt(Hour12(t)) \o <<":">> \o FormatInt02(t.m) \o Meridiem(t)

\* MeridiemTime.__new__ on a string, mt being the match of MATCHER on it
TimeFromMatch(text, mt) ==
    LET m == ParseInt(Group(text, mt, 2))
        h0 == ParseInt(Group(text, mt, 1))
        meridiem == [i \in 1..2 |-> LowerChar(Group(text, mt, 3)[i])]
        idx == IF meridiem = <<"a", "m">> THEN 0 ELSE 1
        h == IF ~Present(mt, 3) THEN h0
             ELSE IF h0 # 12 THEN h0 + idx * 12
             ELSE IF idx = 0 THEN 0 ELSE h0
    IN IF ~mt.ok THEN Raise("ValueError")
       ELSE IF Present(mt, 3) /\ meridiem \notin {<<"a", "m">>, <<"p", "m">>}
            THEN Raise("ValueError")
       ELSE IF h > 23 \/ m > 59 THEN Raise("ValueError")
       ELSE Ok(Time(h, m, 0))

MeridiemTimeNew(text) == TimeFromMatch(text, ReMatch(MeridiemTime_MATCHER, text))

\* MeridiemTime.__eq__
TimeEq(a, b) == a.phase = b.phase /\ a.h = b.h /\ a.m = b.m

\* the clock values alone are compared
ClockLt(a, b) == a.h * 60 + a.m < b.h * 60 + b.m

\* MeridiemTime.__lt__
TimeLt(a, b) ==
    IF a.phase = b.phase THEN a.h * 60 + a.m < b.h * 60 + b.m ELSE a.phase < b.phase

\* MeridiemTime.__le__
TimeLe(a, b) ==
    IF a.phase = b.phase THEN a.h * 60 + a.m <= b.h * 60 + b.m ELSE a.phase <= b.phase

\* MeridiemTime.__gt__
TimeGt(a, b) ==
    IF a.phase = b.phase THEN a.h * 60 + a.m > b.h * 60 + b.m ELSE a.phase > b.phase

\* TimeTick.scalar_minutes, scalar_hours and is_negative of a tick of n minutes
TickAbs(n) == IF n < 0 THEN -n ELSE n
ScalarMinutes(n) == TickAbs(n) % 60
ScalarHours(n) == (TickAbs(n) \div 60) % 24
IsNegative(n) == n < 0

\* MeridiemTime.__add_tick
AddTick(t, n) ==
    LET mm == t.m + ScalarMinutes(n)
        hh == t.h + (mm \div 60) + ScalarHours(n)
    IN Time(hh % 24, mm % 60, t.phase + (hh \div 24))

\* MeridiemTime.__sub_tick
SubTick(t, n) ==
    LET m0 == t.m - ScalarMinutes(n)
        h0 == t.h - ScalarHours(n)
        h1 == IF m0 < 0 THEN h0 + (m0 \div 60) ELSE h0
        m1 == IF m0 < 0 THEN m0 % 60 ELSE m0
    IN IF h1 < 0 THEN Time(h1 % 24, m1, t.phase + (h1 \div 24))
       ELSE Time(h1, m1, t.phase)

\* MeridiemTime.__add__ with a TimeTick
TimeAdd(t, n) == IF IsNegative(n) THEN SubTick(t, n) ELSE AddTick(t, n)

\* MeridiemTime.__sub__ with a TimeTick
TimeSub(t, n) == IF IsNegative(n) THEN AddTick(t, n) ELSE SubTick(t, n)

\* TimeTick.__neg__
TickNeg(n) == -n

\* TimeTick(f'{n}m'): the sign is split off, the minutes are divided into
\* hours and minutes, and both are given the sign again
TickOfMinutes(n) ==
    IF n < 0 THEN (-(TickAbs(n) \div 60)) * 60 + (-(TickAbs(n) % 60))
    ELSE (TickAbs(n) \div 60) * 60 + (TickAbs(n) % 60)

\* the difference of the clock values alone
SubClock(t1, t2) == TickOfMinutes((t1.m + t1.h * 60) - (t2.m + t2.h * 60))

\* MeridiemTime.__sub_time: t1 - t2 in minutes
SubTime(t1, t2) ==
    TickOfMinutes((t1.m + (t1.h + t1.phase * 24) * 60)
                  - (t2.m + (t2.h + t2.phase * 24) * 60))

\* MeridiemTime.infer_tick
InferTick(earlier, later) == SubTime(later, earlier)

\* the 24-hour clock hour MeridiemTime.__new__ computes from the hour and
\* the meridiem of a text
Hour24(h, meridiem) ==
    IF h # 12 THEN h + (IF meridiem = <<"a", "m">> THEN 0 ELSE 12)
    ELSE IF meridiem = <<"a", "m">> THEN 0 ELSE h

\* MeridiemTime.__copy__: the time is rebuilt from the hour, minute and
\* meridiem that str(self) prints, the phase passed on
TimeCopy(t) ==
    Time(Hour24(ParseInt(FormatInt(Hour12(t))), Meridiem(t)),
         ParseInt(FormatInt02(t.m)), t.phase)

\* MeridiemTimeIterator.__next__ on an iterator whose _current is cur (NoTime
\* for None): the new _current, and the value returned unless it raised
\* StopIteration
IterStep(advanced, end, now) ==
    [current |-> advanced, now |-> now, stop |-> ~TimeLe(advanced, end)]

IterFrom(cur, end, tick) == IterStep(TimeAdd(cur, tick), end, TimeCopy(cur))

RECURSIVE TimeIterFrom(_, _, _, _)
\* MeridiemTimeIterator: the values that repeated __next__ yields, the
\* iterator standing at cur; fuel bounds the number of steps
TimeIterFrom(cur, end, tick, fuel) ==
    LET nxt == TimeAdd(cur, tick)
    IN IF fuel = 0 \/ ~TimeLe(nxt, end) THEN <<>>
       ELSE <<cur>> \o TimeIterFrom(nxt, end, tick, fuel - 1)

MaxIter == 8
MeridiemTimeIterator(start, end, tick) == TimeIterFrom(start, end, tick, MaxIter)

(***************************************************************************)
(* model/schedule.py: ScheduleSlot.  A participant is the stored value:    *)
(* an int (a raw member id) or a str; s is its str().  An absent (None or  *)
(* empty) text is <<>>.                                                    *)
(***************************************************************************)
DEFAULT_ESCAPE_TOKEN == "%"

StrP(t) == [int |-> FALSE, s |-> t]
IntP(n) == [int |-> TRUE, s |-> FormatInt(n)]

RDot == RNot({NL})

\* ScheduleSlot.MATCHER (re.MULTILINE | re.IGNORECASE)
ScheduleSlot_MATCHER ==
    RSeq(<<ROpt(RSeq(<<RChr("-"), RStar(RSet(Blank))>>)),
           RGrp(1, RStar(RDot)),
           RChr(":"),
           ROpt(RSet(Blank)),
           ROpt(RGrp(2, RPlus(RNot({NL, TAB, SP, ","})))),
           ROpt(RSet(Blank)),
           RAlt(RSeq(<<RAlt(RLitI(<<"v", "s", ".">>), RChr(",")),
                       RStar(RSet(Blank)),
                       RGrp(3, RStar(RNot({"(", NL, CR})))>>),
                RStar(RSet(Blank))),
           ROpt(RSet(Blank)),
           ROpt(RSeq(<<RChr("("), RGrp(4, RStar(RDot)), RChr(")")>>)),
           RStar(RSet(Blank)),
           RAlt(RChr(NL), REol)>>)

\* oid names the Python object: <<c, j>> is the j-th ScheduleSlot object
\* of the c-th constructing call (two references to one object carry one
\* oid); in a parse, c and j are the positions of the matches
Slot(time, participants, info) ==
    [time |-> time, participants |-> participants, info |-> info, oid |-> <<0, 1>>]

\* the slots of one dictionary handed to every table: the j-th slot is one
\* object whatever the call
SameObjects(slots, call) == [j \in 1..Len(slots) |-> [slots[j] EXCEPT !.oid = <<0, j>>]]

\* the slots, as the objects that the call-th call built in this order
NewObjects(slots, call) == [j \in 1..Len(slots) |-> [slots[j] EXCEPT !.oid = <<call, j>>]]

\* ScheduleSlot.set_participants: the participant list it builds from a
\* primary and a sequence of secondaries (falsy secondaries are dropped,
\* the others stored as str)
SetParticipants(primary, secondaries) ==
    (IF primary.s # <<>> THEN <<primary>> ELSE <<>>)
    \o [i \in 1..Len(SelectSeq(secondaries, LAMBDA x : x.s # <<>>))
          |-> StrP(SelectSeq(secondaries, LAMBDA x : x.s # <<>>)[i].s)]

\* ScheduleSlot.__init__
ScheduleSlotNew(time, primary, secondaries, info) ==
    IF primary.s = <<>> /\ secondaries # <<>> THEN Raise("ValueError")
    ELSE Ok(Slot(time, SetParticipants(primary, secondaries), Strip(info)))

\* ScheduleSlot.__tokenize
Tokenize(p) == <<DEFAULT_ESCAPE_TOKEN>> \o p.s \o <<DEFAULT_ESCAPE_TOKEN>>

\* ScheduleSlot._detokenize with the default one-character token; a value
\* that is not wrapped in the token falls off the end of the function and
\* comes back as None
Detokenize(val) ==
    IF Len(val) < 2 THEN val
    ELSE IF val[1] = DEFAULT_ESCAPE_TOKEN /\ val[Len(val)] = DEFAULT_ESCAPE_TOKEN
         THEN SubSeq(val, 2, Len(val) - 1)
    ELSE <<>>

\* ScheduleSlot.__str__ / serialize
SlotStr(slot) ==
    LET player_str ==
            IF slot.participants # <<>>
            THEN <<SP>> \o Join([i \in 1..Len(slot.participants) |->
                                    Tokenize(slot.participants[i])], <<",", SP>>)
            ELSE <<>>
        info_str ==
            IF slot.info # <<>> THEN <<SP, "(">> \o slot.info \o <<")">> ELSE <<>>
    IN Strip(TimeStr(slot.time) \o <<":">> \o player_str \o info_str)

\* ScheduleSlot.deserialize on a match object m over the text s
SlotFromMatch(s, m) ==
    LET primary == StrP(Detokenize(Group(s, m, 2)))
        g3 == Group(s, m, 3)
        parts == Split(g3, ",")
        secondaries ==
            IF g3 = <<>> THEN <<>>
            ELSE [i \in 1..Len(parts) |-> StrP(Detokenize(Strip(parts[i])))]
    IN IF ~m.ok THEN Raise("ValueError")
       ELSE Bind(MeridiemTimeNew(Strip(Group(s, m, 1))),
                 LAMBDA time : ScheduleSlotNew(time, primary, secondaries, Group(s, m, 4)))

\* ScheduleSlot.deserialize on a string
SlotDeserialize(raw) ==
    IF raw = <<>> THEN Raise("ValueError")
    ELSE SlotFromMatch(raw, ReMatch(ScheduleSlot_MATCHER, raw))

\* a slot with any participant at all
HasSomeParticipant(slot, text) == slot.participants # <<>>

\* ScheduleSlot.has_participant(str)
HasParticipant(slot, text) ==
    \E i \in 1..Len(slot.participants) : slot.participants[i] = StrP(text)

\* the participants alone are dropped
Vacate(slot) == [slot EXCEPT !.participants = <<>>]

\* ScheduleSlot.free
Free(slot) == [slot EXCEPT !.info = <<>>, !.participants = <<>>]

\* ScheduleSlot.is_free
IsFree(slot) == slot.info = <<>> /\ slot.participants = <<>>

(***************************************************************************)
(* model/schedule.py: ScheduleSlotRange.  An indeterminate range has the   *)
(* end NoTime (Python's None).                                             *)
(***************************************************************************)
NoTime == Time(0 - 1, 0, 0)

RTimeToken ==
    RSeq(<<ROneTwo(RDigit), RChr(":"), ROneTwo(RDigit), RSet(WordChars), RSet(WordChars)>>)

\* ScheduleSlotRange.MATCHER
ScheduleSlotRange_MATCHER ==
    RSeq(<<RGrp(1, RTimeToken),
           RStar(RSet(Blank)),
           ROpt(RGrp(2, RSeq(<<RChr("-"), RStar(RSet(Blank))>>))),
           ROpt(RGrp(3, RTimeToken))>>)

Range(start, end) == [start |-> start, end |-> end]

\* ScheduleSlotRange.is_indeterminate
IsIndeterminate(rng) == rng.end = NoTime

\* ScheduleSlotRange.__init__
ScheduleSlotRangeNew(start, end) ==
    IF end # NoTime /\ TimeLe(end, start) THEN Raise("ValueError")
    ELSE Ok(Range(start, end))

\* the end is set whether or not the range has one
Requalify(rng, end) ==
    IF TimeLe(end, rng.start) THEN Raise("ValueError") ELSE Ok(Range(rng.start, end))

\* ScheduleSlotRange.qualify: the range after the call, or the error raised
Qualify(rng, end) ==
    IF ~IsIndeterminate(rng) THEN Raise("RuntimeError")
    ELSE IF TimeLe(end, rng.start) THEN Raise("ValueError")
    ELSE Ok(Range(rng.start, end))

\* ScheduleSlotRange.__str__ / serialize
RangeStr(rng) ==
    TimeStr(rng.start) \o (IF rng.end # NoTime THEN <<"-">> \o TimeStr(rng.end) ELSE <<>>)

\* MeridiemTime(match.group(3)): group(3) is None where the text has no end
EndOf(raw, m) ==
    IF Present(m, 3) THEN MeridiemTimeNew(Group(raw, m, 3)) ELSE Raise("ValueError")

\* the end of a deserialized range: MeridiemTime(group 3) and, where that
\* raises ValueError, the start plus default_interval, or default_end (None
\* is NoTime; a default_interval of None or of no minutes is 0)
EndOrDefault(end, start, default_end, default_interval) ==
    IF end.ok THEN end.v
    ELSE IF default_interval # 0 THEN TimeAdd(TimeCopy(start), default_interval)
    ELSE default_end

\* ScheduleSlotRange.deserialize, m being the match of MATCHER on raw
RangeFromMatchWith(raw, m, default_end, default_interval) ==
    IF raw = <<>> THEN Raise("ValueError")
    ELSE IF default_end # NoTime /\ default_interval # 0 THEN Raise("ValueError")
    ELSE IF ~m.ok THEN Raise("ValueError")
    ELSE IF Present(m, 2) # Present(m, 3) THEN Raise("ValueError")
    ELSE Bind(MeridiemTimeNew(Group(raw, m, 1)),
              LAMBDA start :
                 ScheduleSlotRangeNew(start,
                     EndOrDefault(EndOf(raw, m), start, default_end, default_interval)))

\* ScheduleSlotRange.deserialize without default_end and default_interval
RangeFromMatch(raw, m) == RangeFromMatchWith(raw, m, NoTime, 0)

RangeDeserializeWith(raw, default_end, default_interval) ==
    RangeFromMatchWith(raw, ReMatch(ScheduleSlotRange_MATCHER, raw), default_end,
                       default_interval)

RangeDeserialize(raw) == RangeFromMatch(raw, ReMatch(ScheduleSlotRange_MATCHER, raw))

(***************************************************************************)
(* util/date.py: CommonDate.  A date is its day of September 2023, the     *)
(* month of the repository's tests; 09/24/2023 is a Sunday.                *)
(***************************************************************************)
\* the days of the month
SeptemberDays == 1..30

\* date.strftime('%A')
DayNames ==
    <<<<"S", "u", "n", "d", "a", "y">>,
      <<"M", "o", "n", "d", "a", "y">>,
      <<"T", "u", "e", "s", "d", "a", "y">>,
      <<"W", "e", "d", "n", "e", "s", "d", "a", "y">>,
      <<"T", "h", "u", "r", "s", "d", "a", "y">>,
      <<"F", "r", "i", "d", "a", "y">>,
      <<"S", "a", "t", "u", "r", "d", "a", "y">>>>

\* DateTranslator.day_from_date
DayFromDate(d) == DayNames[((d + 4) % 7) + 1]

\* CommonDate.__str__ with DEFAULT_DATE_FORMAT = '%m/%d/%Y'
DateStr(d) == <<"0", "9", "/">> \o FormatInt02(d) \o <<"/", "2", "0", "2", "3">>

\* the text forms strptime('%m/%d/%Y') accepts
RDate ==
    RSeq(<<RGrp(1, ROneTwo(RDigit)), RChr("/"), RGrp(2, ROneTwo(RDigit)), RChr("/"),
           RGrp(3, RSeq(<<RDigit, RDigit, RDigit, RDigit>>))>>)

\* CommonDate.deserialize of a text in the date format
DateFromMatch(raw, m) ==
    LET d == ParseInt(Group(raw, m, 2))
    IN IF raw = <<>> \/ ~m.ok \/ m.pos # Len(raw) + 1 THEN Raise("ValueError")
       ELSE IF ParseInt(Group(raw, m, 1)) # 9 \/ ParseInt(Group(raw, m, 3)) # 2023
               \/ d \notin SeptemberDays
            THEN Raise("ValueError")
       ELSE Ok(d)

CommonDateDeserialize(raw) == DateFromMatch(raw, ReMatch(RDate, raw))

(***************************************************************************)
(* model/schedule_config.py: the day configuration of the store.  Days are *)
(* numbered as in DayNames; a day without an entry is not in open_days.    *)
(***************************************************************************)
DayConfig(tables, start_time, end_time, slot_duration) ==
    [tables |-> tables, start_time |-> start_time, end_time |-> end_time,
     slot_duration |-> slot_duration]

\* the 'days' section of the configuration file.  Sunday: two tables,
\* 1:00pm to 5:00pm in slots of two hours.  Saturday: one table, 12:00am to
\* 12:00pm in one slot of twelve hours.  Monday: one table, 9:00am to
\* 12:00pm with a slot duration of 25 hours.
ConfigDays == {1, 2, 7}
DayConfigs ==
    [n \in ConfigDays |->
        IF n = 1 THEN DayConfig(2, Time(13, 0, 0), Time(17, 0, 0), 120)
        ELSE IF n = 2 THEN DayConfig(1, Time(9, 0, 0), Time(12, 0, 0), 25 * 60)
        ELSE DayConfig(1, Time(0, 0, 0), Time(12, 0, 0), 720)]

DayIndex(day) == CHOOSE n \in 1..7 : DayNames[n] = day

\* ScheduleConfig.get_day
GetDay(day) ==
    IF DayIndex(day) \notin ConfigDays THEN Raise("ValueError")
    ELSE Ok(DayConfigs[DayIndex(day)])

(***************************************************************************)
(* util/consts.py, util/date.py and model/schedule_config.py: the          *)
(* singletons.  The class attribute 'instance' of a singleton class is not *)
(* set, set to an object of another type, or set to an object of the       *)
(* class; an object carries the set of instance attributes assigned so far *)
(* (attrs) beside their values.                                            *)
(***************************************************************************)
\* str.lower()
Lower(text) == [i \in 1..Len(text) |-> LowerChar(text[i])]

\* the weekday names in lower case, Monday first
DAYS_OF_THE_WEEK == [i \in 1..7 |-> Lower(DayNames[(i % 7) + 1])]

\* x in list
InList(x, list) == \E i \in 1..Len(list) : list[i] = x

Absent == [kind |-> "absent"]
Foreign == [kind |-> "foreign"]

\* not hasattr(cls, 'instance') or not isinstance(cls.instance, cls)
NoInstance(attr) == attr.kind # "object"

\* the 'days' section of a configuration document: the entries in file order
NoDays == <<>>

\* what object.__new__ gives for the two classes
ConfigObject(id) ==
    [kind |-> "object", class |-> "ScheduleConfig", id |-> id, attrs |-> {},
     open_days |-> <<>>, day_configs |-> <<>>]
TranslatorObject(id) ==
    [kind |-> "object", class |-> "DateTranslator", id |-> id, attrs |-> {},
     date_format |-> <<>>]

\* a __new__ that allocates on every call
SingletonFresh(attr, fresh) == fresh

\* ScheduleConfig.__new__ and DateTranslator.__new__: the value of
\* cls.instance afterwards, which is the object __init__ runs on
SingletonNew(attr, fresh) == IF NoInstance(attr) THEN fresh ELSE attr

\* ScheduleConfig.singleton and DateTranslator.singleton
Singleton(attr) == IF NoInstance(attr) THEN Raise("SingletonNotExist") ELSE Ok(attr)

\* DateTranslator.__init__: the object afterwards and how the call ended
TranslatorInit(self, date_format) ==
    IF "initialized" \in self.attrs
    THEN [self |-> self, out |-> Raise("SingletonExist")]
    ELSE [self |-> [self EXCEPT !.date_format = date_format,
                                !.attrs = @ \cup {"_date_format", "initialized"}],
          out |-> Ok(None)]

\* DayConfig.__init__ on one entry of 'days': a mapping from field names to
\* the values their texts stand for
DayFields == {"tables", "start_time", "end_time", "slot_duration"}
DayConfigNew(config) ==
    IF DOMAIN config = {} THEN Raise("ValueError")
    ELSE IF ~(DayFields \subseteq DOMAIN config) THEN Raise("KeyError")
    ELSE Ok(DayConfig(config["tables"], config["start_time"], config["end_time"],
                      config["slot_duration"]))

\* ScheduleConfig._validate
Validate(doc) ==
    IF ~doc.has_schedule \/ ~doc.has_days THEN Raise("KeyError")
    ELSE IF \E i \in 1..Len(doc.days) : ~InList(Lower(doc.days[i].key), DAYS_OF_THE_WEEK)
    THEN Raise("KeyError")
    ELSE Ok(None)

\* self._config['schedule']['days'][day]
DayEntry(doc, day) ==
    IF \E i \in 1..Len(doc.days) : doc.days[i].key = day
    THEN Ok(doc.days[CHOOSE i \in 1..Len(doc.days) : doc.days[i].key = day].config)
    ELSE Raise("KeyError")

\* self.day_configs[day] = value
SetItem(dict, key, value) ==
    [k \in DOMAIN dict \cup {key} |-> IF k = key THEN value ELSE dict[k]]

\* the loop of ScheduleConfig.__init__ over self.open_days from position i;
\* an exception leaves the entries already stored
RECURSIVE LoadDays(_, _, _)
LoadDayInto(self, doc, i, cfg) ==
    IF cfg.ok
    THEN LoadDays([self EXCEPT !.day_configs = SetItem(@, self.open_days[i], cfg.v)],
                  doc, i + 1)
    ELSE [self |-> self, out |-> Raise("ConfigError")]
LoadDays(self, doc, i) ==
    IF i > Len(self.open_days)
    THEN [self |-> [self EXCEPT !.attrs = @ \cup {"initialized"}], out |-> Ok(None)]
    ELSE LoadDayInto(self, doc, i,
                     Bind(DayEntry(doc, self.open_days[i]), LAMBDA c : DayConfigNew(c)))

\* ScheduleConfig.__init__ on the document the file holds: the object
\* afterwards and how the call ended
ConfigInit(self, doc) ==
    IF "initialized" \in self.attrs
    THEN [self |-> self, out |-> Raise("SingletonExist")]
    ELSE IF ~Validate(doc).ok
    THEN [self |-> [self EXCEPT !.attrs = @ \cup {"_config"}],
          out |-> Raise("ConfigError")]
    ELSE LoadDays([self EXCEPT !.attrs = @ \cup {"_config", "open_days", "day_configs"},
                               !.open_days = [i \in 1..Len(doc.days) |-> Lower(doc.days[i].key)],
                               !.day_configs = <<>>],
                  doc, 1)

\* ScheduleConfig.get_day on the class whose attribute 'instance' is attr;
\* without the instance attribute, self.open_days is the static method
ConfigGetDayOf(self, day) ==
    IF "open_days" \notin self.attrs THEN Raise("TypeError")
    ELSE IF ~InList(Lower(day), self.open_days) THEN Raise("ValueError")
    ELSE IF Lower(day) \notin DOMAIN self.day_configs THEN Raise("KeyError")
    ELSE Ok(self.day_configs[Lower(day)])
ConfigGetDay(attr, day) == Bind(Singleton(attr), LAMBDA self : ConfigGetDayOf(self, day))

\* list.index(x), counted from 0
IndexOf(list, x) ==
    IF InList(x, list)
    THEN Ok((CHOOSE i \in 1..Len(list) :
                list[i] = x /\ \A j \in 1..(i - 1) : list[j] # x) - 1)
    ELSE Raise("ValueError")

\* the days to add when a day equal to today's waits a whole week
AddNextWeek(day_offset, today_day_offset) ==
    IF day_offset <= today_day_offset
    THEN day_offset + (Len(DAYS_OF_THE_WEEK) - today_day_offset)
    ELSE day_offset - today_day_offset

\* DateTranslator.date_from_day: the days to add to today
AddDays(day_offset, today_day_offset) ==
    IF day_offset # today_day_offset
    THEN IF day_offset < today_day_offset
         THEN day_offset + (Len(DAYS_OF_THE_WEEK) - today_day_offset)
         ELSE day_offset - today_day_offset
    ELSE 0

\* DateTranslator.date_from_day when today() gave the date today
DateFromOffsets(today, day_offset, today_day_offset) ==
    IF ~day_offset.ok THEN day_offset
    ELSE IF ~today_day_offset.ok THEN today_day_offset
    ELSE Ok(today + AddDays(day_offset.v, today_day_offset.v))
DateFromDayOn(today, day) ==
    DateFromOffsets(today, IndexOf(DAYS_OF_THE_WEEK, Lower(day)),
                    IndexOf(DAYS_OF_THE_WEEK, Lower(DayFromDate(today))))
DateFromDay(attr, today, day) ==
    Bind(Singleton(attr), LAMBDA self : DateFromDayOn(today, day))

\* the document of the store: the days of DayConfigs in file order
StoreDocument ==
    [has_schedule |-> TRUE, has_days |-> TRUE,
     days |-> [i \in 1..3 |->
                 [key |-> Lower(DayNames[<<1, 2, 7>>[i]]),
                  config |-> [f \in DayFields |->
                                 IF f = "tables" THEN DayConfigs[<<1, 2, 7>>[i]].tables
                                 ELSE IF f = "start_time" THEN DayConfigs[<<1, 2, 7>>[i]].start_time
                                 ELSE IF f = "end_time" THEN DayConfigs[<<1, 2, 7>>[i]].end_time
                                 ELSE DayConfigs[<<1, 2, 7>>[i]].slot_duration]]]]

\* DateTranslator's DEFAULT_DATE_FORMAT
DEFAULT_DATE_FORMAT == <<"%", "m", "/", "%", "d", "/", "%", "Y">>

\* bot.py: the two singletons as the start of the bot constructs them
Started ==
    [ScheduleConfig |-> ConfigInit(ConfigObject(1), StoreDocument).self,
     DateTranslator |-> TranslatorInit(TranslatorObject(2), DEFAULT_DATE_FORMAT).self,
     created |-> 2]

(***************************************************************************)
(* model/schedule.py: ScheduleTable.  timeslots is the OrderedDict in      *)
(* insertion order; the key of a slot is str(slot.time).                   *)
(***************************************************************************)
\* ScheduleTable.MATCHER (re.IGNORECASE)
ScheduleTable_MATCHER ==
    RSeq(<<ROpt(RSeq(<<RLit(<<"*", "*">>), RStar(RSet(Blank))>>)),
           RLitI(<<"T", "a", "b", "l", "e">>),
           RSet(Blank),
           RGrp(1, RStar(RDigit)),
           RSet(Blank),
           RLitI(<<"(", "u", "n", "t", "i", "l">>),
           RSet(Blank),
           RGrp(2, RTimeToken),
           RChr(")"),
           RStar(RSet(Blank)),
           RLit(<<"*", "*">>),
           RGrp(3, RLazy(RAny)),
           RAlt(RLook(RLit(<<"*", "*">>)), REnd)>>)

Table(number, timeslots, closing) ==
    [number |-> number, timeslots |-> timeslots, closing |-> closing]

\* the position of the key in an OrderedDict given as a sequence, 0 if absent
KeyIndex(seq, Key(_), key) ==
    IF \E i \in 1..Len(seq) : Key(seq[i]) = key
    THEN CHOOSE i \in 1..Len(seq) : Key(seq[i]) = key
    ELSE 0

SlotKey(slot) == TimeStr(slot.time)

\* timeslots[str(slot.time)] = slot
PutSlot(timeslots, slot) ==
    LET i == KeyIndex(timeslots, SlotKey, SlotKey(slot))
    IN IF i = 0 THEN Append(timeslots, slot) ELSE [timeslots EXCEPT ![i] = slot]

\* ScheduleTable.__init__
ScheduleTableNew(number, timeslots, closing) ==
    IF timeslots = <<>> THEN Raise("ValueError")
    ELSE Ok(Table(number, timeslots, closing))

\* ScheduleTable.__str__ / serialize
TableStr(table) ==
    RStrip(<<"*", "*", "T", "a", "b", "l", "e", SP>> \o FormatInt(table.number)
           \o <<SP, "(", "u", "n", "t", "i", "l", SP>> \o TimeStr(table.closing)
           \o <<")", "*", "*", NL>>
           \o Join([i \in 1..Len(table.timeslots) |->
                      <<"-", SP>> \o SlotStr(table.timeslots[i]) \o <<NL>>], <<>>),
           {NL})

RECURSIVE SlotsFromMatches(_, _, _)
\* the loop over re.finditer(ScheduleSlot.MATCHER, body): the slots parsed
\* so far are in acc; the first error ends the loop
SlotsFromMatches(body, ms, acc) ==
    IF ms = <<>> THEN Ok(acc)
    ELSE Bind(SlotFromMatch(body, ms[1]),
              LAMBDA slot : SlotsFromMatches(body, Tail(ms),
                                PutSlot(acc, [slot EXCEPT !.oid = <<0, ms[1].start>>])))

\* the loop of ScheduleTable.deserialize over the slots of the body
SlotsOfBody(body) == SlotsFromMatches(body, ReFindIter(ScheduleSlot_MATCHER, body), <<>>)

\* ScheduleTable.deserialize on a match object m over the text raw; no
\* match is None, whose group() raises AttributeError, and int('') raises
\* ValueError
TableFromMatch(raw, m) ==
    IF ~m.ok THEN Raise("AttributeError")
    ELSE IF Strip(Group(raw, m, 1)) = <<>> THEN Raise("ValueError")
    ELSE Bind(MeridiemTimeNew(Strip(Group(raw, m, 2))),
              LAMBDA closing :
                 Bind(SlotsOfBody(Strip(Group(raw, m, 3))),
                      LAMBDA timeslots :
                         ScheduleTableNew(ParseInt(Strip(Group(raw, m, 1))),
                                          timeslots, closing)))

\* ScheduleTable.deserialize on a string
TableDeserialize(raw) == TableFromMatch(raw, ReMatch(ScheduleTable_MATCHER, raw))

\* the table, its slots being the objects that the call-th call built
TableOfCall(table, call) ==
    [table EXCEPT !.timeslots =
        [j \in 1..Len(table.timeslots) |->
           [table.timeslots[j] EXCEPT !.oid = <<call, table.timeslots[j].oid[2]>>]]]

\* ScheduleTable.has_time
HasTime(table, time) ==
    \/ \E i \in 1..Len(table.timeslots) : SlotKey(table.timeslots[i]) = TimeStr(time)
    \/ TimeStr(table.closing) = TimeStr(time)

\* ScheduleTable.infer_interval
InferInterval(table) ==
    IF Len(table.timeslots) = 1
    THEN InferTick(table.timeslots[1].time, table.closing)
    ELSE InferTick(table.timeslots[1].time, table.timeslots[2].time)

(***************************************************************************)
(* model/schedule.py: Schedule.  tables is the OrderedDict in insertion    *)
(* order, keyed by the table number.                                       *)
(***************************************************************************)
\* Schedule.HEADER_MATCHER (re.MULTILINE | re.IGNORECASE)
Schedule_HEADER_MATCHER ==
    RSeq(<<RBol,
           RLit(<<"#", "#", "#">>),
           RStar(RNot({NL, "-"})),
           RChr("-"),
           ROpt(RSet(Blank)),
           RGrp(1, RPlus(RNot({"-", NL}))),
           ROpt(RGrp(2, RSeq(<<RStar(RSet(Blank)),
                               RLitI(<<"-", SP, "C", "L", "O", "S", "E", "D">>)>>))),
           REol>>)

Schedule(date, tables, open) == [date |-> date, tables |-> tables, open |-> open]

TableKey(table) == table.number

\* tables[table.number] = table
PutTable(tables, table) ==
    LET i == KeyIndex(tables, TableKey, table.number)
    IN IF i = 0 THEN Append(tables, table) ELSE [tables EXCEPT ![i] = table]

\* Schedule.generate_slots
GenerateSlots(day) ==
    LET day_config == GetDay(day).v
        times == MeridiemTimeIterator(day_config.start_time, day_config.end_time,
                                      day_config.slot_duration)
    IN [i \in 1..Len(times) |-> Slot(times[i], <<>>, <<>>)]

\* Schedule.__init__ without tables: one ScheduleTable per configured
\* table, each over its own generate_slots() result
GeneratedSchedule(date, day_config, slots) ==
    IF day_config.tables > 0 /\ slots = <<>> THEN Raise("ValueError")
    ELSE Ok(Schedule(date,
                     [i \in 1..day_config.tables |->
                        Table(i, NewObjects(slots, i), day_config.end_time)],
                     TRUE))

\* Schedule.__init__
ScheduleNew(date, tables, is_open) ==
    IF tables = <<>> /\ is_open
    THEN Bind(GetDay(DayFromDate(date)),
              LAMBDA day_config : GeneratedSchedule(date, day_config,
                                                    GenerateSlots(DayFromDate(date))))
    ELSE Ok(Schedule(date, tables, is_open))

\* Schedule.__str__ / serialize
ScheduleStr(sch) ==
    RStrip(<<"#", "#", "#", SP, "S", "c", "h", "e", "d", "u", "l", "e", SP>>
           \o DayFromDate(sch.date) \o <<SP, "-", SP>> \o DateStr(sch.date)
           \o (IF ~sch.open THEN <<SP, "-", SP, "C", "L", "O", "S", "E", "D">> ELSE <<>>)
           \o <<NL>>
           \o (IF sch.open
               THEN Join([i \in 1..Len(sch.tables) |->
                            TableStr(sch.tables[i]) \o <<NL, NL>>], <<>>)
               ELSE <<>>),
           {NL, SP})

RECURSIVE TablesFromMatches(_, _, _)
\* the loop over re.finditer(ScheduleTable.MATCHER, raw)
TablesFromMatches(raw, ms, acc) ==
    IF ms = <<>> THEN Ok(acc)
    ELSE Bind(TableDeserialize(Strip(Group0(raw, ms[1]))),
              LAMBDA table : TablesFromMatches(raw, Tail(ms),
                                 PutTable(acc, TableOfCall(table, ms[1].start))))

\* the loop of Schedule.deserialize over the tables of an open schedule
TablesOfText(raw, is_open) ==
    IF is_open THEN TablesFromMatches(raw, ReFindIter(ScheduleTable_MATCHER, raw), <<>>)
    ELSE Ok(<<>>)

\* is_open = False if header_match.group(2) else True
HeaderIsOpen(raw, m) == ~(Present(m, 2) /\ Group(raw, m, 2) # <<>>)

\* Schedule.deserialize after the header match m
ScheduleFromHeader(raw, m) ==
    IF ~m.ok THEN Raise("ValueError")
    ELSE Bind(CommonDateDeserialize(Strip(Group(raw, m, 1))),
              LAMBDA date :
                 Bind(TablesOfText(raw, HeaderIsOpen(raw, m)),
                      LAMBDA tables : ScheduleNew(date, tables, HeaderIsOpen(raw, m))))

\* Schedule.deserialize
ScheduleDeserialize(raw) ==
    ScheduleFromHeader(raw, ReMatch(Schedule_HEADER_MATCHER, raw))

(***************************************************************************)
(* core/bot_core.py: the mention transforms applied at the channel.        *)
(***************************************************************************)
ESCAPE_TOKEN == "%"

\* the pattern of externalize_payload: {token}(\d*){token}
RExternal == RSeq(<<RChr(ESCAPE_TOKEN), RGrp(1, RStar(RDigit)), RChr(ESCAPE_TOKEN)>>)

\* the pattern of internalize_payload: <@!?(\d*)>
RInternal == RSeq(<<RLit(<<"<", "@">>), ROpt(RChr("!")), RGrp(1, RStar(RDigit)), RChr(">")>>)

RECURSIVE SubFrom(_, _, _, _, _)
\* re.sub(re, before \g<1> after, s): the text from position p on, with the
\* matches ms (all at or after p) replaced
SubFrom(s, ms, p, before, after) ==
    IF ms = <<>> THEN SubSeq(s, p, Len(s))
    ELSE SubSeq(s, p, ms[1].start - 1) \o before \o Group(s, ms[1], 1) \o after
         \o SubFrom(s, Tail(ms), ms[1].pos, before, after)

\* ScheduleBot.externalize_payload
ExternalizePayload(payload) ==
    SubFrom(payload, ReFindIter(RExternal, payload), 1, <<"<", "@">>, <<">">>)

\* ScheduleBot.internalize_payload
InternalizePayload(payload) ==
    SubFrom(payload, ReFindIter(RInternal, payload), 1, <<ESCAPE_TOKEN>>, <<ESCAPE_TOKEN>>)

(***************************************************************************)
(* core/bot_core.py: the schedules bound to the messages of the read-only  *)
(* channel.  messages are the contents of the bot's messages, oldest       *)
(* first; opened is the set of the values of open that are looked for      *)
(* (None is BOOLEAN).                                                      *)
(***************************************************************************)
NotFound == [found |-> FALSE]
Found(i, schedule) == [found |-> TRUE, index |-> i, schedule |-> schedule]

\* Schedule.deserialize(self.internalize_payload(message.content.strip(), ...))
ParseMessage(content) == ScheduleDeserialize(InternalizePayload(Strip(content)))

\* a schedule of the date, whatever its state
IsOfDate(parsed, date, opened) == parsed.date = date

\* the test of find_bound_schedule on a parsed schedule
IsBound(parsed, date, opened) == parsed.open \in opened /\ parsed.date = date

RECURSIVE FindBoundFrom(_, _, _, _)
\* the loop body without the except clause: every parse error is raised
FindBoundRaising(messages, i, date, opened, parsed) ==
    IF ~parsed.ok THEN parsed
    ELSE IF parsed.v.open \in opened /\ parsed.v.date = date THEN Ok(Found(i, parsed.v))
    ELSE FindBoundFrom(messages, i + 1, date, opened)

\* the body of the loop of find_bound_schedule on message i, parsed being
\* what Schedule.deserialize gave: ValueError is caught, the rest is raised
FindBoundAt(messages, i, date, opened, parsed) ==
    IF ~parsed.ok
    THEN IF parsed.err = "ValueError" THEN FindBoundFrom(messages, i + 1, date, opened)
         ELSE parsed
    ELSE IF IsBound(parsed.v, date, opened) THEN Ok(Found(i, parsed.v))
    ELSE FindBoundFrom(messages, i + 1, date, opened)

\* the loop of find_bound_schedule from message i on
FindBoundFrom(messages, i, date, opened) ==
    IF i > Len(messages) THEN Ok(NotFound)
    ELSE FindBoundAt(messages, i, date, opened, ParseMessage(messages[i]))

\* ScheduleBot.find_bound_schedule
find_bound_schedule(messages, date, opened) == FindBoundFrom(messages, 1, date, opened)

\* the content that BoundSchedule.create and update send
Content(schedule) == ExternalizePayload(ScheduleStr(schedule))

\* ScheduleBot.modify_cache without remove
ModifyCache(cache, schedule) == [cache EXCEPT ![schedule.date] = schedule]

\* the channel and the cache during a handler
Store(messages, cache) == [messages |-> messages, cache |-> cache]

\* BoundSchedule.update on message i
Update(store, i, schedule) ==
    Store([store.messages EXCEPT ![i] = Content(schedule)], ModifyCache(store.cache, schedule))

\* BoundSchedule.create
Create(store, schedule) ==
    Store(Append(store.messages, Content(schedule)), ModifyCache(store.cache, schedule))

\* _cache of regenerate_schedule_cache
CacheOne(cache, schedule) ==
    IF cache[schedule.date] = None THEN ModifyCache(cache, schedule)
    ELSE IF ScheduleStr(schedule) # ScheduleStr(cache[schedule.date])
         THEN ModifyCache(cache, schedule)
    ELSE cache

RECURSIVE RegenerateFrom(_, _, _)
\* the body of the loop of process_schedules(_cache) on message i
RegenerateAt(messages, i, cache, parsed) ==
    IF ~parsed.ok
    THEN IF parsed.err = "ValueError" THEN RegenerateFrom(messages, i + 1, cache)
         ELSE parsed
    ELSE RegenerateFrom(messages, i + 1, CacheOne(cache, parsed.v))

RegenerateFrom(messages, i, cache) ==
    IF i > Len(messages) THEN Ok(Store(messages, cache))
    ELSE RegenerateAt(messages, i, cache, ParseMessage(messages[i]))

\* ScheduleBot.regenerate_schedule_cache
regenerate_schedule_cache(store) == RegenerateFrom(store.messages, 1, store.cache)

RECURSIVE CloseFrom(_, _, _)
\* the body of the loop of process_schedules(_close) on message i
CloseAt(store, i, date, parsed) ==
    IF ~parsed.ok
    THEN IF parsed.err = "ValueError" THEN CloseFrom(store, i + 1, date) ELSE parsed
    ELSE IF parsed.v.open /\ parsed.v.date = date
         THEN CloseFrom(Update(store, i, [parsed.v EXCEPT !.open = FALSE]), i + 1, date)
    ELSE CloseFrom(store, i + 1, date)

CloseFrom(store, i, date) ==
    IF i > Len(store.messages) THEN Ok(store)
    ELSE CloseAt(store, i, date, ParseMessage(store.messages[i]))

\* ScheduleBot.close_given
close_given(store, date) == CloseFrom(store, 1, date)

\* what open_given leaves and returns: the channel and the cache, and the
\* bound schedule or None
Opened(store, returned) == [store |-> store, returned |-> returned]

\* an open_given that sends a new message whatever it found
OpenAlways(store, date, force, found) ==
    Bind(ScheduleNew(date, <<>>, TRUE),
         LAMBDA schedule :
            Ok(Opened(Create(store, schedule), Found(Len(store.messages) + 1, schedule))))

\* the rest of ScheduleBot.open_given after find_bound_schedule
OpenFound(store, date, force, found) ==
    IF found.found
    THEN IF ~force THEN Ok(Opened(store, None))
         ELSE Bind(ScheduleNew(date, <<>>, TRUE),
                   LAMBDA schedule :
                      Ok(Opened(Update(store, found.index, schedule),
                                Found(found.index, schedule))))
    ELSE Bind(ScheduleNew(date, <<>>, TRUE),
              LAMBDA schedule :
                 Ok(Opened(Create(store, schedule),
                           Found(Len(store.messages) + 1, schedule))))

\* ScheduleBot.open_given(date, force=force, state=state); opened is the set
\* of the values of open that state stands for
OpenGiven(store, date, force, opened) ==
    Bind(find_bound_schedule(store.messages, date, opened),
         LAMBDA found : OpenFound(store, date, force, found))

\* ScheduleBot.open_given with state=True: the channel and the cache after it
open_given(store, date, force) ==
    Bind(OpenGiven(store, date, force, {TRUE}), LAMBDA opened : Ok(opened.store))

\* ScheduleBot.modify_cache with remove=True
RemoveCache(cache, schedule) == [cache EXCEPT ![schedule.date] = None]

\* BoundSchedule.delete on message i
Delete(store, i, schedule) ==
    Store(SubSeq(store.messages, 1, i - 1)
              \o SubSeq(store.messages, i + 1, Len(store.messages)),
          RemoveCache(store.cache, schedule))

\* what a clean has done so far: the channel and the cache, and the open
\* schedules it passed over.  open_still is the variable of clean_given that
\* it returns: False before the loop, and handed to the callback by value
Cleaning(store, skipped) == [store |-> store, skipped |-> skipped, open_still |-> FALSE]

RECURSIVE CleanUntilFrom(_, _, _)
\* the body of the loop of process_schedules(_clean_until) on message i; the
\* history was read before the loop, so a deletion moves the later messages
\* to the position of the deleted one
CleanUntilAt(c, i, date, parsed) ==
    IF ~parsed.ok
    THEN IF parsed.err = "ValueError" THEN CleanUntilFrom(c, i + 1, date) ELSE parsed
    ELSE IF parsed.v.date <= date
         THEN IF parsed.v.open
              THEN CleanUntilFrom(Cleaning(c.store, Append(c.skipped, parsed.v)), i + 1, date)
              ELSE CleanUntilFrom(Cleaning(Delete(c.store, i, parsed.v), c.skipped), i, date)
    ELSE CleanUntilFrom(c, i + 1, date)

CleanUntilFrom(c, i, date) ==
    IF i > Len(c.store.messages) THEN Ok(c)
    ELSE CleanUntilAt(c, i, date, ParseMessage(c.store.messages[i]))

\* ScheduleBot.clean_until with a list for the skipped schedules
clean_until(store, date) == CleanUntilFrom(Cleaning(store, <<>>), 1, date)

RECURSIVE CleanGivenFrom(_, _, _)
\* a clean of one date that passes over no schedule
CleanGivenAny(c, i, date, parsed) ==
    IF ~parsed.ok
    THEN IF parsed.err = "ValueError" THEN CleanGivenFrom(c, i + 1, date) ELSE parsed
    ELSE IF parsed.v.date = date
         THEN CleanGivenFrom(Cleaning(Delete(c.store, i, parsed.v), c.skipped), i, date)
    ELSE CleanGivenFrom(c, i + 1, date)

\* the body of the loop of process_schedules(_clean) on message i;
\* _still_open is a parameter of the callback, so its assignment is lost
CleanGivenAt(c, i, date, parsed) ==
    IF ~parsed.ok
    THEN IF parsed.err = "ValueError" THEN CleanGivenFrom(c, i + 1, date) ELSE parsed
    ELSE IF parsed.v.date = date
         THEN IF parsed.v.open
              THEN CleanGivenFrom(c, i + 1, date)
              ELSE CleanGivenFrom(Cleaning(Delete(c.store, i, parsed.v), c.skipped), i, date)
    ELSE CleanGivenFrom(c, i + 1, date)

CleanGivenFrom(c, i, date) ==
    IF i > Len(c.store.messages) THEN Ok(c)
    ELSE CleanGivenAt(c, i, date, ParseMessage(c.store.messages[i]))

\* ScheduleBot.clean_given
clean_given(store, date) == CleanGivenFrom(Cleaning(store, <<>>), 1, date)

\* where a handler got to: the channel and the cache it leaves, and the
\* exception it ended with, "" when it returned
Reached(store, err) == [store |-> store, err |-> err]

\* one turn of the loop of open_until: an exception of open_given ends it
OpenUntilAt(store, date_iter, out) ==
    IF out.ok THEN Reached(out.v.store, "") ELSE Reached(store, out.err)

RECURSIVE OpenUntilFrom(_, _, _, _, _)
OpenUntilNext(reached, date_iter, end_date, force, opened) ==
    IF reached.err # "" THEN reached
    ELSE OpenUntilFrom(reached.store, date_iter + 1, end_date, force, opened)

\* the loop of open_until from date_iter on
OpenUntilFrom(store, date_iter, end_date, force, opened) ==
    IF date_iter > end_date THEN Reached(store, "")
    ELSE OpenUntilNext(OpenUntilAt(store, date_iter,
                                   OpenGiven(store, date_iter, force, opened)),
                       date_iter, end_date, force, opened)

\* ScheduleBot.open_until(date, force=force, state=state) on the day today
open_until(store, today, date, force, opened) ==
    OpenUntilFrom(store, today, date, force, opened)

RECURSIVE CloseUntilFrom(_, _, _)
\* the body of the loop of process_schedules(_close_until) on message i
CloseUntilAt(store, i, date, parsed) ==
    IF ~parsed.ok
    THEN IF parsed.err = "ValueError" THEN CloseUntilFrom(store, i + 1, date) ELSE parsed
    ELSE IF parsed.v.open /\ parsed.v.date <= date
         THEN CloseUntilFrom(Update(store, i, [parsed.v EXCEPT !.open = FALSE]), i + 1, date)
    ELSE CloseUntilFrom(store, i + 1, date)

CloseUntilFrom(store, i, date) ==
    IF i > Len(store.messages) THEN Ok(store)
    ELSE CloseUntilAt(store, i, date, ParseMessage(store.messages[i]))

\* ScheduleBot.close_until
close_until(store, date) == CloseUntilFrom(store, 1, date)

(***************************************************************************)
(* model/schedule.py: the range operations of ScheduleTable and Schedule.  *)
(***************************************************************************)
\* the positions in table.timeslots of the slots self.timeslots[str(time)]
\* for the times of the iterator; 0 where the lookup raises KeyError
LookUp(table, times) ==
    [i \in 1..Len(times) |-> KeyIndex(table.timeslots, SlotKey, TimeStr(times[i]))]

Covered(table, rng) ==
    LookUp(table, MeridiemTimeIterator(rng.start, rng.end, InferInterval(table)))

\* the loop of ScheduleTable.check over the slots at the positions idx
CheckAt(table, idx, predicate(_)) ==
    IF \E i \in 1..Len(idx) : idx[i] = 0 THEN Raise("KeyError")
    ELSE Ok(\A i \in 1..Len(idx) : predicate(table.timeslots[idx[i]]))

\* ScheduleTable.check; end_time of an indeterminate range raises
Check(table, rng, predicate(_)) ==
    IF IsIndeterminate(rng) THEN Raise("AttributeError")
    ELSE CheckAt(table, Covered(table, rng), predicate)

\* the loop of ScheduleTable.exec over the slots at the positions idx:
\* action(slot) gives the slot after the call and the value returned; v.hit
\* are the objects the action was applied to
ExecAt(table, idx, action(_)) ==
    IF \E i \in 1..Len(idx) : idx[i] = 0 THEN Raise("KeyError")
    ELSE Ok([hit |-> {action(table.timeslots[idx[i]]).slot : i \in 1..Len(idx)},
             ret |-> \A i \in 1..Len(idx) : action(table.timeslots[idx[i]]).ret])

\* ScheduleTable.exec
Exec(table, rng, action(_)) ==
    IF IsIndeterminate(rng) THEN Raise("AttributeError")
    ELSE ExecAt(table, Covered(table, rng), action)

\* the schedule after table.exec: a slot object that the action changed is
\* changed in every table that holds a reference to it
AfterExec(sch, hit) ==
    [sch EXCEPT !.tables =
        [n \in 1..Len(sch.tables) |->
           [sch.tables[n] EXCEPT !.timeslots =
              [j \in 1..Len(sch.tables[n].timeslots) |->
                 LET old == sch.tables[n].timeslots[j]
                 IN IF \E h \in hit : h.oid = old.oid
                    THEN CHOOSE h \in hit : h.oid = old.oid
                    ELSE old]]]]

\* Schedule.is_slotrange_valid
IsSlotRangeValid(sch, rng) ==
    /\ \A n \in 1..Len(sch.tables) : HasTime(sch.tables[n], rng.start)
    /\ \A n \in 1..Len(sch.tables) : HasTime(sch.tables[n], rng.end)

\* the second statement of Schedule.qualify_slotrange
ValidRange(sch, rng) == IF ~IsSlotRangeValid(sch, rng) THEN Raise("ValueError") ELSE Ok(rng)

\* Schedule.qualify_slotrange: the qualified range, or the error raised
QualifySlotRange(sch, rng) ==
    IF ~IsIndeterminate(rng) THEN ValidRange(sch, rng)
    ELSE IF sch.tables = <<>> THEN Raise("IndexError")
    ELSE Bind(Qualify(rng, TimeAdd(rng.start, InferInterval(sch.tables[1]))),
              LAMBDA q : ValidRange(sch, q))

(***************************************************************************)
(* core/util.py: the predicates and actions on a slot.  A member is its    *)
(* id; opponents is a sequence of ids (None and [] are <<>>).              *)
(***************************************************************************)
\* the author alone is looked for, the opponents are not
OwnedByAuthorAlone(author, opponent, slot) == HasParticipant(slot, FormatInt(author))

\* timeslot_is_owned_by_author
timeslot_is_owned_by_author(author, opponent, slot) ==
    \A i \in 1..(1 + Len(opponent)) :
        HasParticipant(slot, FormatInt((<<author>> \o opponent)[i]))

\* a slot without info, whoever its participants are
InfoIsEmpty(slot) == slot.info = <<>>

\* timeslot_is_free
timeslot_is_free(slot) == IsFree(slot)

\* timeslot_mark_as_free
timeslot_mark_as_free(slot) == [slot |-> Free(slot), ret |-> TRUE]

\* timeslot_mark_as_owned: the primary is the raw id, the secondaries are
\* str(id), the info is stored as given
timeslot_mark_as_owned(author, opponent, info, slot) ==
    [slot |-> [slot EXCEPT
                 !.participants =
                     SetParticipants(IntP(author),
                                     [i \in 1..Len(opponent) |-> StrP(FormatInt(opponent[i]))]),
                 !.info = info],
     ret |-> TRUE]

(***************************************************************************)
(* cogs/cog_slot.py: what a handler does with the schedule that            *)
(* find_bound_schedule returned, up to its call of update().  The result   *)
(* is the error raised, or the schedule to write and the table chosen.     *)
(***************************************************************************)
\* a list comprehension over calls that may raise: the first exception, or
\* the list of the values
ListOrRaise(res) ==
    IF \E n \in 1..Len(res) : ~res[n].ok
    THEN res[CHOOSE n \in 1..Len(res) : ~res[n].ok /\ \A k \in 1..(n - 1) : res[k].ok]
    ELSE Ok([n \in 1..Len(res) |-> res[n].v])

\* [table.check(rng, predicate) for table in schedule.tables.values()]
CheckTables(sch, rng, predicate(_)) ==
    ListOrRaise([n \in 1..Len(sch.tables) |-> Check(sch.tables[n], rng, predicate)])

AnyOf(flags) == \E n \in 1..Len(flags) : flags[n]

\* the table of the last true flag, where the handlers take the first
LastTable(sch, flags) ==
    KeyIndex(sch.tables, TableKey,
             CHOOSE n \in 1..Len(flags) : flags[n] /\ \A k \in (n + 1)..Len(flags) : ~flags[k])

\* schedule.tables[[i for i, x in enumerate(flags) if x][0] + 1]: the
\* position of the table with that key, 0 for KeyError
FirstTable(sch, flags) ==
    KeyIndex(sch.tables, TableKey,
             CHOOSE n \in 1..Len(flags) : flags[n] /\ \A k \in 1..(n - 1) : ~flags[k])

\* the except clause of the handlers around qualify_slotrange
AsValidationError(r) == IF ~r.ok /\ r.err = "ValueError" THEN Raise("ValidationError") ELSE r

\* table.exec(rng, action) on the chosen table and the value handed to update()
ExecOnTable(sch, t, rng, action(_)) ==
    IF t = 0 THEN Raise("KeyError")
    ELSE Bind(Exec(sch.tables[t], rng, action),
              LAMBDA done : Ok([schedule |-> AfterExec(sch, done.hit),
                                table |-> sch.tables[t].number]))

\* raise ValidationError unless any(flags)
AnyOrRaise(flags) == IF AnyOf(flags) THEN Ok(flags) ELSE Raise("ValidationError")

\* SlotManager.request_validate after the lookup: the qualified range
request_validate(sch, timeslot_range) ==
    Bind(AsValidationError(QualifySlotRange(sch, timeslot_range)),
         LAMBDA rng :
            Bind(Bind(CheckTables(sch, rng, timeslot_is_free), AnyOrRaise),
                 LAMBDA free_slots : Ok(rng)))

\* SlotManager.cancel_validate after the lookup: the qualified range
cancel_validate(sch, author, timeslot_range) ==
    Bind(AsValidationError(QualifySlotRange(sch, timeslot_range)),
         LAMBDA rng :
            Bind(Bind(CheckTables(sch, rng,
                                  LAMBDA slot : timeslot_is_owned_by_author(author, <<>>, slot)),
                      AnyOrRaise),
                 LAMBDA owned_tables : Ok(rng)))

\* SlotManager.add after the lookup
add_plan(sch, timeslot_range, author, opponents, game) ==
    Bind(AsValidationError(QualifySlotRange(sch, timeslot_range)),
         LAMBDA rng :
            Bind(Bind(CheckTables(sch, rng, timeslot_is_free), AnyOrRaise),
                 LAMBDA free_slots :
                    ExecOnTable(sch, FirstTable(sch, free_slots), rng,
                                LAMBDA slot :
                                   timeslot_mark_as_owned(author, opponents, game, slot))))

\* SlotManager.remove after the lookup
remove_plan(sch, timeslot_range, author, opponents) ==
    Bind(AsValidationError(QualifySlotRange(sch, timeslot_range)),
         LAMBDA rng :
            Bind(Bind(CheckTables(sch, rng,
                                  LAMBDA slot :
                                     timeslot_is_owned_by_author(author, opponents, slot)),
                      AnyOrRaise),
                 LAMBDA owned_tables :
                    ExecOnTable(sch, FirstTable(sch, owned_tables), rng,
                                timeslot_mark_as_free)))

\* the branch of SlotManager.accept taken when a table is already owned:
\* the lookup of the owned table, then the ValidationError
AlreadyOwned(sch, already_owned_slots) ==
    IF FirstTable(sch, already_owned_slots) = 0 THEN Raise("KeyError")
    ELSE Raise("ValidationError")

\* SlotManager.accept after the lookup, for a request
accept_request_plan(sch, times, author, opponents, game) ==
    Bind(CheckTables(sch, times, LAMBDA slot : timeslot_is_owned_by_author(author, <<>>, slot)),
         LAMBDA already_owned_slots :
            IF AnyOf(already_owned_slots) THEN AlreadyOwned(sch, already_owned_slots)
            ELSE Bind(Bind(CheckTables(sch, times, timeslot_is_free), AnyOrRaise),
                      LAMBDA free_slots :
                         ExecOnTable(sch, FirstTable(sch, free_slots), times,
                                     LAMBDA slot :
                                        timeslot_mark_as_owned(author, opponents, game,
                                                               slot))))

\* SlotManager.accept after the lookup, for a cancel
accept_cancel_plan(sch, times, author) ==
    Bind(Bind(CheckTables(sch, times,
                          LAMBDA slot : timeslot_is_owned_by_author(author, <<>>, slot)),
              AnyOrRaise),
         LAMBDA owned_tables :
            ExecOnTable(sch, FirstTable(sch, owned_tables), times, timeslot_mark_as_free))

(***************************************************************************)
(* The state.                                                              *)
(***************************************************************************)
VARIABLES
    readonly,        \* the messages of the read-only channel, oldest first
    data,            \* the messages of the bot data channel, oldest first
    schedule_cache,  \* ScheduleBot._schedule_cache: str(date) -> Schedule
    tasks,           \* the handler coroutines that are suspended at an await
    last,            \* the last command handled and how it ended
    instance,        \* the attribute 'instance' of the singleton classes
    arg,             \* the value a function under study is applied to
    result           \* what the function gave

bot == <<readonly, data, schedule_cache, tasks, last, instance>>
vars == <<readonly, data, schedule_cache, tasks, last, instance, arg, result>>

\* the dates the commands name: 09/23/2023, a Saturday
Dates == {23}

\* the bot after on_ready on empty channels
InitBot ==
    /\ readonly = <<>>
    /\ data = <<>>
    /\ schedule_cache = [d \in Dates |-> None]
    /\ tasks = <<>>
    /\ last = [op |-> "on_ready", date |-> 0, err |-> ""]
    /\ instance = Started

(***************************************************************************)
(* The codec on its own: serialize and deserialize applied to a value.     *)
(***************************************************************************)
One == <<"1">>
Two == <<"2">>
GameX == <<"x">>
GameAB == <<"a", ":", "b">>

CodecTimes == {Time(13, 0, 0), Time(15, 0, 0)}
CodecParticipants == {<<>>, <<StrP(One)>>, <<IntP(1)>>, <<StrP(One), StrP(Two)>>}
CodecInfos == {<<>>, GameX, GameAB}
CodecSlots ==
    {Slot(t, p, i) : t \in CodecTimes, p \in CodecParticipants, i \in CodecInfos}
CodecTables ==
    {Table(1, <<s1, s2>>, Time(17, 0, 0)) :
        s1 \in {s \in CodecSlots : s.time = Time(13, 0, 0)},
        s2 \in {Slot(Time(15, 0, 0), <<>>, <<>>), Slot(Time(15, 0, 0), <<StrP(Two)>>, GameX)}}
CodecSchedules ==
    {Schedule(24, <<t>>, o) : t \in {c \in CodecTables : c.timeslots[2].participants = <<>>},
                              o \in BOOLEAN}
    \cup {Schedule(d, <<>>, FALSE) : d \in {23, 24}}

CodecArgs ==
    {[kind |-> "slot", x |-> x] : x \in CodecSlots}
    \cup {[kind |-> "table", x |-> x] : x \in CodecTables}
    \cup {[kind |-> "schedule", x |-> x] : x \in CodecSchedules}

\* the texts handed to the four deserialize functions: the empty text, a
\* text that matches none of the patterns, and one serialized object of each
\* class
CodecTexts ==
    {<<>>, <<"x">>,
     SlotStr(Slot(Time(13, 0, 0), <<StrP(One)>>, GameX)),
     TableStr(Table(1, <<Slot(Time(13, 0, 0), <<>>, <<>>)>>, Time(17, 0, 0))),
     ScheduleStr(Schedule(24, <<>>, FALSE)),
     RangeStr(Range(Time(13, 0, 0), Time(15, 0, 0)))}

Codecs == {"schedule", "table", "slot", "range"}

TextArgs == {[kind |-> "text", codec |-> c, raw |-> r] : c \in Codecs, r \in CodecTexts}

\* the texts of ranges: the start 2:00am, a separator or none, and an end
\* or none; 9:99pm and 6:00xx have the form of a time and are none
RangeStart == <<"2", ":", "0", "0", "a", "m">>
RangeEnds ==
    {<<>>, <<"6", ":", "0", "0", "a", "m">>, <<"9", ":", "9", "9", "p", "m">>,
     <<"6", ":", "0", "0", "x", "x">>, <<"b", "a", "d">>}
RangeTextArgs ==
    {[kind |-> "range_text", sep |-> s, end |-> e, default_end |-> de,
      default_interval |-> di] :
        s \in {<<>>, <<"-">>}, e \in RangeEnds, de \in {NoTime, Time(6, 0, 0)},
        di \in {0, 120}}

\* the schedules written to the channel: one slot with no, one or two
\* participant ids and an info that is absent, a game, a mention typed into
\* the game in either form, or a text with the escape token
Mention5 == <<"<", "@", "5", ">">>
Nickname5 == <<"<", "@", "!", "5", ">">>
PayloadInfos == {<<>>, GameAB, Mention5, Nickname5, <<"%", "%">>, <<"9", "5", "%">>}
PayloadSchedules ==
    {Schedule(24, <<Table(1, <<Slot(Time(13, 0, 0), p, i)>>, Time(17, 0, 0))>>, TRUE) :
        p \in {<<>>, <<IntP(1)>>, <<IntP(1), IntP(2)>>}, i \in PayloadInfos}
PayloadArgs == {[kind |-> "payload", x |-> x] : x \in PayloadSchedules}

\* the ids of the mentions Discord writes
MentionIds == {<<>>, <<"5">>, <<"1", "2">>}
MentionArgs == {[kind |-> "mention", id |-> id] : id \in MentionIds}

\* slot lines of 1:00pm: the names of the participant field, wrapped in the
\* escape token or not, of one character or more, and the info
Wrapped(name) == <<DEFAULT_ESCAPE_TOKEN>> \o name \o <<DEFAULT_ESCAPE_TOKEN>>
LineNames ==
    {<<Wrapped(One)>>, <<<<"a", "b">>>>, <<<<"a">>>>,
     <<Wrapped(One), Wrapped(Two)>>, <<<<"a", "b">>, Wrapped(Two)>>,
     <<Wrapped(One), <<"c", "d">>>>, <<Wrapped(One), <<"c">>>>}
LineInfos == {<<>>, <<SP, "(", "x", ")">>}
LineText(names, info) ==
    <<"1", ":", "0", "0", "p", "m", ":", SP>> \o Join(names, <<",", SP>>) \o info
LineArgs ==
    {[kind |-> "line", names |-> n, raw |-> LineText(n, i)] : n \in LineNames, i \in LineInfos}

InitCodec ==
    /\ InitBot
    /\ arg \in CodecArgs \cup TextArgs \cup RangeTextArgs \cup PayloadArgs \cup MentionArgs
                \cup LineArgs
    /\ result = None

\* ScheduleSlot.deserialize(slot.serialize())
RoundTripSlot ==
    /\ arg.kind = "slot" /\ result = None
    /\ result' = [kind |-> "roundtrip", text |-> SlotStr(arg.x),
                  back |-> SlotDeserialize(SlotStr(arg.x)),
                  again |-> LET b == SlotDeserialize(SlotStr(arg.x))
                            IN IF b.ok THEN SlotStr(b.v) ELSE <<>>]
    /\ UNCHANGED <<bot, arg>>

\* ScheduleTable.deserialize(table.serialize())
RoundTripTable ==
    /\ arg.kind = "table" /\ result = None
    /\ result' = [kind |-> "roundtrip", text |-> TableStr(arg.x),
                  back |-> TableDeserialize(TableStr(arg.x)),
                  again |-> LET b == TableDeserialize(TableStr(arg.x))
                            IN IF b.ok THEN TableStr(b.v) ELSE <<>>]
    /\ UNCHANGED <<bot, arg>>

\* Schedule.deserialize(schedule.serialize())
RoundTripSchedule ==
    /\ arg.kind = "schedule" /\ result = None
    /\ result' = [kind |-> "roundtrip", text |-> ScheduleStr(arg.x),
                  back |-> ScheduleDeserialize(ScheduleStr(arg.x)),
                  again |-> LET b == ScheduleDeserialize(ScheduleStr(arg.x))
                            IN IF b.ok THEN ScheduleStr(b.v) ELSE <<>>]
    /\ UNCHANGED <<bot, arg>>

\* slot.free(), and slot.free() once more
SlotFree ==
    /\ arg.kind = "slot" /\ result = None
    /\ result' = [kind |-> "free", slot |-> Free(arg.x), again |-> Free(Free(arg.x))]
    /\ UNCHANGED <<bot, arg>>

\* ScheduleSlotRange.deserialize(raw, default_end=..., default_interval=...)
RangeParse ==
    /\ arg.kind = "range_text" /\ result = None
    /\ result' = [kind |-> "range_text",
                  out |-> RangeDeserializeWith(RangeStart \o arg.sep \o arg.end,
                                               arg.default_end, arg.default_interval)]
    /\ UNCHANGED <<bot, arg>>

\* the match that the deserialize function of the class makes on the text
CodecMatch(codec, raw) ==
    IF codec = "schedule" THEN ReMatch(Schedule_HEADER_MATCHER, raw)
    ELSE IF codec = "table" THEN ReMatch(ScheduleTable_MATCHER, raw)
    ELSE IF codec = "slot" THEN ReMatch(ScheduleSlot_MATCHER, raw)
    ELSE ReMatch(ScheduleSlotRange_MATCHER, raw)

\* the deserialize function of the class on the text
CodecDeserialize(codec, raw) ==
    IF codec = "schedule" THEN ScheduleDeserialize(raw)
    ELSE IF codec = "table" THEN TableDeserialize(raw)
    ELSE IF codec = "slot" THEN SlotDeserialize(raw)
    ELSE RangeDeserialize(raw)

\* Schedule / ScheduleTable / ScheduleSlot / ScheduleSlotRange .deserialize(raw)
Deserialize ==
    /\ arg.kind = "text" /\ result = None
    /\ result' = [kind |-> "deserialize", matched |-> CodecMatch(arg.codec, arg.raw).ok,
                  out |-> CodecDeserialize(arg.codec, arg.raw)]
    /\ UNCHANGED <<bot, arg>>

\* internalize_payload(externalize_payload(str(schedule)))
PayloadRoundTrip ==
    /\ arg.kind = "payload" /\ result = None
    /\ result' = [kind |-> "payload", text |-> ScheduleStr(arg.x),
                  back |-> InternalizePayload(ExternalizePayload(ScheduleStr(arg.x)))]
    /\ UNCHANGED <<bot, arg>>

\* internalize_payload of the mention of an id without and with nickname
MentionInternalize ==
    /\ arg.kind = "mention" /\ result = None
    /\ result' = [kind |-> "mention",
                  plain |-> InternalizePayload(<<"<", "@">> \o arg.id \o <<">">>),
                  nick |-> InternalizePayload(<<"<", "@", "!">> \o arg.id \o <<">">>)]
    /\ UNCHANGED <<bot, arg>>

\* a _detokenize that keeps what is not wrapped as it is
DetokenizeKeeping(val) ==
    IF Len(val) >= 2 /\ val[1] = DEFAULT_ESCAPE_TOKEN /\ val[Len(val)] = DEFAULT_ESCAPE_TOKEN
    THEN SubSeq(val, 2, Len(val) - 1)
    ELSE val

\* ScheduleSlot.deserialize(raw) on a slot line with participants
SlotLine ==
    /\ arg.kind = "line" /\ result = None
    /\ result' = [kind |-> "line", out |-> SlotDeserialize(arg.raw)]
    /\ UNCHANGED <<bot, arg>>

NextCodec ==
    \/ SlotLine
    \/ RoundTripSlot \/ RoundTripTable \/ RoundTripSchedule \/ SlotFree
    \/ Deserialize \/ RangeParse \/ PayloadRoundTrip \/ MentionInternalize

SpecCodec == InitCodec /\ [][NextCodec]_vars

\* C1: deserializing the serialized form of a valid slot, table or schedule
\* succeeds and gives an object whose serialized form is the same text.
C1_RoundTrip ==
    result.kind = "roundtrip" => result.back.ok /\ result.again = result.text

\* the slot 1:00pm with the participant "1" and the info "a:b" went through
\* the round trip
C1_FailingInput ==
    /\ arg = [kind |-> "slot", x |-> Slot(Time(13, 0, 0), <<StrP(One)>>, GameAB)]
    /\ result.kind = "roundtrip"

(***************************************************************************)
(* The handlers on one record: what each handler does with the schedule    *)
(* that find_bound_schedule parsed, for every record of a small family and *)
(* every command on it.                                                    *)
(***************************************************************************)
PlanUsers == {1, 2}
PlanDates == {23, 24}

\* the participants a parse finds in a slot, and the info written with them
PlanOwners == {<<>>, <<StrP(One)>>, <<StrP(Two)>>, <<StrP(One), StrP(Two)>>}
PlanInfo(p) == IF p = <<>> \/ p = <<StrP(Two)>> THEN <<>> ELSE GameX

\* the schedule with the owners own[n][j] in slot j of table n
PlanFill(sch, own) ==
    [sch EXCEPT !.tables =
        [n \in 1..Len(sch.tables) |->
           [sch.tables[n] EXCEPT !.timeslots =
              [j \in 1..Len(sch.tables[n].timeslots) |->
                 [sch.tables[n].timeslots[j] EXCEPT !.participants = own[n][j],
                                                    !.info = PlanInfo(own[n][j])]]]]]

\* the schedules of a date: Schedule(date) with every choice of owners
PlanSchedulesOf(fresh) ==
    {PlanFill(fresh, own) :
        own \in [1..Len(fresh.tables) -> [1..Len(fresh.tables[1].timeslots) -> PlanOwners]]}
PlanSchedules(d) == PlanSchedulesOf(ScheduleNew(d, <<>>, TRUE).v)

\* the ranges the commands name: with and without an end, at slot times,
\* at the closing time and off the grid
PlanRanges(d) ==
    IF d = 24
    THEN {Range(Time(13, 0, 0), NoTime), Range(Time(15, 0, 0), NoTime),
          Range(Time(13, 0, 0), Time(15, 0, 0)), Range(Time(15, 0, 0), Time(17, 0, 0)),
          Range(Time(13, 0, 0), Time(17, 0, 0)), Range(Time(17, 0, 0), NoTime),
          Range(Time(14, 0, 0), NoTime)}
    ELSE {Range(Time(0, 0, 0), NoTime), Range(Time(0, 0, 0), Time(12, 0, 0)),
          Range(Time(12, 0, 0), NoTime)}

PlanArgs ==
    UNION {{[kind |-> "plan", sch |-> s, rng |-> r, author |-> a, opponents |-> o] :
               s \in PlanSchedules(d), r \in PlanRanges(d), a \in PlanUsers,
               o \in {<<>>, <<1>>, <<2>>}} : d \in PlanDates}

\* the slots and members the ownership predicate is applied to
OwnedIds == {1, 2, 12}
OwnedParticipants ==
    PlanOwners \cup {<<StrP(Two), StrP(One)>>, <<StrP(<<"1", "2">>)>>,
                     <<StrP(<<"1", "2">>), StrP(Two)>>}
OwnedArgs ==
    {[kind |-> "owned", slot |-> Slot(Time(13, 0, 0), p, PlanInfo(p)), author |-> a,
      opponents |-> o] :
        p \in OwnedParticipants, a \in OwnedIds,
        o \in {<<>>} \cup {<<x>> : x \in OwnedIds} \cup {<<1, 2>>}}

\* the dates a schedule is generated for: a Friday, which has no
\* configuration, a Saturday, a Sunday and a Monday
GenerateDates == {22, 23, 24, 25}
GenerateArgs == {[kind |-> "generate", date |-> d] : d \in GenerateDates}

InitPlan ==
    /\ InitBot
    /\ arg \in {x \in PlanArgs : x.opponents # <<x.author>>} \cup OwnedArgs
                \cup GenerateArgs
    /\ result = None

\* the range a data record holds: request and cancel store the range that
\* request_validate and cancel_validate qualified against the schedule
RecordRange(sch, rng) == ~IsIndeterminate(rng) /\ IsSlotRangeValid(sch, rng)

\* the handler ran on the record and returned or raised
Ran(kind, out) ==
    /\ result = None
    /\ result' = [kind |-> kind, out |-> out]
    /\ UNCHANGED <<bot, arg>>

PlanRequest ==
    arg.kind = "plan" /\ Ran("request", request_validate(arg.sch, arg.rng))

PlanCancel ==
    arg.kind = "plan" /\ Ran("cancel", cancel_validate(arg.sch, arg.author, arg.rng))

PlanAdd ==
    arg.kind = "plan"
    /\ Ran("add", add_plan(arg.sch, arg.rng, arg.author, arg.opponents, GameX))

PlanRemove ==
    arg.kind = "plan"
    /\ Ran("remove", remove_plan(arg.sch, arg.rng, arg.author, arg.opponents))

PlanAcceptRequest ==
    /\ arg.kind = "plan" /\ RecordRange(arg.sch, arg.rng)
    /\ Ran("accept_request",
           accept_request_plan(arg.sch, arg.rng, arg.author, arg.opponents, GameX))

PlanAcceptCancel ==
    /\ arg.kind = "plan" /\ RecordRange(arg.sch, arg.rng) /\ arg.opponents = <<>>
    /\ Ran("accept_cancel", accept_cancel_plan(arg.sch, arg.rng, arg.author))

\* the predicates and the actions that the handlers hand to check and exec
PlanPredicate(pred, author, slot) ==
    IF pred = "free" THEN timeslot_is_free(slot)
    ELSE timeslot_is_owned_by_author(author, <<>>, slot)

PlanAction(act, author, opponents, slot) ==
    IF act = "free" THEN timeslot_mark_as_free(slot)
    ELSE timeslot_mark_as_owned(author, opponents, GameX, slot)

\* table.check(range, predicate) on table n with the qualified range rng;
\* evaluated are the lookups self.timeslots[str(time)] of the loop
CheckOn(n, pred, rng) ==
    /\ result = None
    /\ result' = [kind |-> "check", table |-> n, pred |-> pred, rng |-> rng,
                  evaluated |-> Covered(arg.sch.tables[n], rng),
                  out |-> Check(arg.sch.tables[n], rng,
                                LAMBDA slot : PlanPredicate(pred, arg.author, slot))]
    /\ UNCHANGED <<bot, arg>>

CheckWith(q) ==
    /\ q.ok
    /\ \E n \in 1..Len(arg.sch.tables), pred \in {"free", "owned"} : CheckOn(n, pred, q.v)

PlanCheck == arg.kind = "plan" /\ CheckWith(QualifySlotRange(arg.sch, arg.rng))

\* the schedule after table.exec returned (done.ok) or raised
ScheduleAfter(sch, done) == IF done.ok THEN AfterExec(sch, done.v.hit) ELSE sch

\* table.exec(range, action) on table n with the qualified range rng
ExecOn(n, act, rng, done) ==
    /\ result = None
    /\ result' = [kind |-> "exec", table |-> n, act |-> act, rng |-> rng,
                  out |-> done, after |-> ScheduleAfter(arg.sch, done)]
    /\ UNCHANGED <<bot, arg>>

ExecWith(q) ==
    /\ q.ok
    /\ \E n \in 1..Len(arg.sch.tables), act \in {"free", "own"} :
          ExecOn(n, act, q.v,
                 Exec(arg.sch.tables[n], q.v,
                      LAMBDA slot : PlanAction(act, arg.author, arg.opponents, slot)))

PlanExec == arg.kind = "plan" /\ ExecWith(QualifySlotRange(arg.sch, arg.rng))

\* timeslot_is_owned_by_author(author, opponents, slot)
PlanOwned ==
    /\ arg.kind = "owned"
    /\ Ran("owned", timeslot_is_owned_by_author(arg.author, arg.opponents, arg.slot))

\* schedule.qualify_slotrange(range)
PlanQualify ==
    arg.kind = "plan" /\ Ran("qualify", QualifySlotRange(arg.sch, arg.rng))

\* Schedule(date): an open schedule without tables given
PlanGenerate ==
    arg.kind = "generate" /\ Ran("generate", ScheduleNew(arg.date, <<>>, TRUE))

\* what timeslot_is_owned_by_author and is_free say of the slot that
\* timeslot_mark_as_owned left
Marked(author, opponents, slot) ==
    [slot |-> slot,
     owned |-> timeslot_is_owned_by_author(author, opponents, slot),
     free |-> timeslot_is_free(slot)]

\* timeslot_mark_as_owned and then timeslot_is_owned_by_author on the slot
PlanMark ==
    /\ arg.kind = "owned"
    /\ Ran("mark", Marked(arg.author, arg.opponents,
                          timeslot_mark_as_owned(arg.author, arg.opponents, GameX,
                                                 arg.slot).slot))

NextPlan ==
    \/ PlanMark
    \/ PlanRequest \/ PlanCancel \/ PlanAdd \/ PlanRemove
    \/ PlanAcceptRequest \/ PlanAcceptCancel
    \/ PlanCheck \/ PlanExec \/ PlanOwned \/ PlanQualify \/ PlanGenerate

SpecPlan == InitPlan /\ [][NextPlan]_vars

(***************************************************************************)
(* The claims about the handlers on one record.                            *)
(***************************************************************************)
\* the slots of a table that a range names: start <= time < end
RangeSlots(table, rng) ==
    {j \in 1..Len(table.timeslots) :
        /\ TimeLe(rng.start, table.timeslots[j].time)
        /\ TimeLt(table.timeslots[j].time, rng.end)}

\* the range the handler works on: accept takes it from the data record,
\* the others qualify the range of the command
HandlerRange ==
    IF result.kind \in {"accept_request", "accept_cancel"} THEN Ok(arg.rng)
    ELSE QualifySlotRange(arg.sch, arg.rng)

\* the tables of the record in which P holds of every slot of the range
TablesWhere(P(_)) ==
    {n \in 1..Len(arg.sch.tables) :
        \A j \in RangeSlots(arg.sch.tables[n], HandlerRange.v) :
            P(arg.sch.tables[n].timeslots[j])}

\* the table of the smallest number among the tables ns
Smallest(ns) ==
    CHOOSE n \in ns : \A m \in ns : arg.sch.tables[n].number <= arg.sch.tables[m].number

SlotIsFree(slot) == slot.participants = <<>> /\ slot.info = <<>>

Ids(author, opponents) == {author} \cup {opponents[i] : i \in 1..Len(opponents)}

\* every id is, written in decimal, one of the participants of the slot
SlotHas(slot, ids) ==
    \A id \in ids : \E i \in 1..Len(slot.participants) : slot.participants[i].s = FormatInt(id)

\* the slot is owned by the author and the opponents of the command, in
\* this order, with the game as its info
SlotIsMarked(slot) ==
    /\ [i \in 1..Len(slot.participants) |-> slot.participants[i].s]
         = <<FormatInt(arg.author)>>
           \o [i \in 1..Len(arg.opponents) |-> FormatInt(arg.opponents[i])]
    /\ slot.info = GameX

\* the schedule the handler hands to update() differs from the record read
\* in the slots of the range on table first only, and Q holds of these
OnlyRangeOf(first, Q(_)) ==
    \A n \in 1..Len(arg.sch.tables) : \A j \in 1..Len(arg.sch.tables[n].timeslots) :
        IF n = first /\ j \in RangeSlots(arg.sch.tables[n], HandlerRange.v)
        THEN /\ Q(result.out.v.schedule.tables[n].timeslots[j])
             /\ result.out.v.schedule.tables[n].timeslots[j].time
                  = arg.sch.tables[n].timeslots[j].time
        ELSE result.out.v.schedule.tables[n].timeslots[j] = arg.sch.tables[n].timeslots[j]

\* C4: when add or the accept of a request succeeds, the table it reports
\* is the one of the smallest number among the tables whose slots of the
\* range are all free, the slots of the range on that table are owned by
\* the author and the opponents, and no other slot of the schedule differs
\* from the record read.
C4_FirstFreeTable ==
    result.kind \in {"add", "accept_request"} /\ result.out.ok =>
        /\ TablesWhere(SlotIsFree) # {}
        /\ result.out.v.table = arg.sch.tables[Smallest(TablesWhere(SlotIsFree))].number
        /\ RangeSlots(arg.sch.tables[Smallest(TablesWhere(SlotIsFree))], HandlerRange.v) # {}
        /\ OnlyRangeOf(Smallest(TablesWhere(SlotIsFree)), SlotIsMarked)

\* an add over both slots went to table 2, table 1 being free in one slot only
C4_Witness ==
    /\ result.kind = "add" /\ result.out.ok /\ result.out.v.table = 2
    /\ arg.rng = Range(Time(13, 0, 0), Time(17, 0, 0))
    /\ SlotIsFree(arg.sch.tables[1].timeslots[1])

\* C5: when the range is valid and no table has all the slots of the range
\* free, request, add and the accept of a request raise ValidationError, so
\* that nothing is handed to update().
C5_NoTableFree ==
    /\ result.kind \in {"request", "add", "accept_request"}
    /\ HandlerRange.ok
    /\ TablesWhere(SlotIsFree) = {}
    => ~result.out.ok /\ result.out.err = "ValidationError"

\* an add over both slots was rejected although each slot is free on one table
C5_Witness ==
    /\ result.kind = "add" /\ ~result.out.ok
    /\ arg.rng = Range(Time(13, 0, 0), Time(17, 0, 0))
    /\ SlotIsFree(arg.sch.tables[1].timeslots[1]) /\ ~SlotIsFree(arg.sch.tables[1].timeslots[2])
    /\ ~SlotIsFree(arg.sch.tables[2].timeslots[1]) /\ SlotIsFree(arg.sch.tables[2].timeslots[2])

\* the ids that remove and the accept of a cancel look for in a slot
ReleaseIds ==
    IF result.kind = "remove" THEN Ids(arg.author, arg.opponents) ELSE {arg.author}

SlotHasReleaseIds(slot) == SlotHas(slot, ReleaseIds)

\* C6: with a valid range, remove and the accept of a cancel raise
\* ValidationError when no table has the author (and, for remove, every
\* opponent) among the participants of every slot of the range; otherwise,
\* when they return, they report the table of the smallest number among
\* these tables, the slots of the range on it are free, and no other slot
\* differs from the record read; they return whenever the range names a
\* slot.
C6_FirstOwnedTable ==
    result.kind \in {"remove", "accept_cancel"} /\ HandlerRange.ok =>
        IF TablesWhere(SlotHasReleaseIds) = {}
        THEN ~result.out.ok /\ result.out.err = "ValidationError"
        ELSE /\ RangeSlots(arg.sch.tables[1], HandlerRange.v) # {} => result.out.ok
             /\ result.out.ok =>
                  /\ result.out.v.table
                       = arg.sch.tables[Smallest(TablesWhere(SlotHasReleaseIds))].number
                  /\ OnlyRangeOf(Smallest(TablesWhere(SlotHasReleaseIds)), SlotIsFree)

\* a remove naming an opponent freed both slots of table 2
C6_Witness ==
    /\ result.kind = "remove" /\ result.out.ok /\ result.out.v.table = 2
    /\ arg.opponents # <<>>
    /\ arg.rng = Range(Time(13, 0, 0), Time(17, 0, 0))

\* C8: timeslot_is_owned_by_author is true exactly when the id of the
\* author and the id of every opponent are among the participants of the
\* slot.
C8_OwnedIffAllIds ==
    result.kind = "owned" =>
        result.out = SlotHas(arg.slot, Ids(arg.author, arg.opponents))

\* the predicate was false of a slot that holds the author and not the opponent
C8_Witness ==
    /\ result.kind = "owned" /\ result.out = FALSE
    /\ arg.author = 1 /\ arg.opponents = <<2>>
    /\ arg.slot.participants = <<StrP(One)>>

\* C9: check on a range that passed is_slotrange_valid returns, its value
\* is true exactly when the predicate holds of every slot of the table with
\* start <= time < end, the slot at the start of the range is among the
\* slots looked at, and a range of one slot looks at one slot.
C9_CheckCoversRange ==
    result.kind = "check" =>
        /\ result.out.ok
        /\ result.out.v =
             \A j \in RangeSlots(arg.sch.tables[result.table], result.rng) :
                PlanPredicate(result.pred, arg.author,
                              arg.sch.tables[result.table].timeslots[j])
        /\ \E i \in 1..Len(result.evaluated) :
              /\ result.evaluated[i] # 0
              /\ arg.sch.tables[result.table].timeslots[result.evaluated[i]].time
                   = result.rng.start
        /\ Cardinality(RangeSlots(arg.sch.tables[result.table], result.rng)) = 1
              => Len(result.evaluated) = 1

\* check ran on Saturday's table with the range 12:00pm-12:00am, which
\* qualify_slotrange gave for the command range 12:00pm
C9_FailingInput ==
    /\ result.kind = "check"
    /\ arg.sch.date = 23
    /\ arg.rng = Range(Time(12, 0, 0), NoTime)

\* the slot the action makes of the slot of the record
ExecActionOn(slot) == PlanAction(result.act, arg.author, arg.opponents, slot)

\* C10: when exec returns, the slots of the table with start <= time < end
\* are what the action makes of them, every other slot of the schedule is
\* as before, the value returned is true exactly when every application
\* returned true, and no two slots of the schedule are one object.
C10_ExecFrame ==
    result.kind = "exec" /\ result.out.ok =>
        /\ \A n \in 1..Len(arg.sch.tables) : \A j \in 1..Len(arg.sch.tables[n].timeslots) :
              result.after.tables[n].timeslots[j] =
                 IF n = result.table /\ j \in RangeSlots(arg.sch.tables[n], result.rng)
                 THEN ExecActionOn(arg.sch.tables[n].timeslots[j]).slot
                 ELSE arg.sch.tables[n].timeslots[j]
        /\ result.out.v.ret =
              \A j \in RangeSlots(arg.sch.tables[result.table], result.rng) :
                 ExecActionOn(arg.sch.tables[result.table].timeslots[j]).ret
        /\ \A n, m \in 1..Len(arg.sch.tables) :
              \A j \in 1..Len(arg.sch.tables[n].timeslots) :
                 \A k \in 1..Len(arg.sch.tables[m].timeslots) :
                    arg.sch.tables[n].timeslots[j].oid = arg.sch.tables[m].timeslots[k].oid
                       => n = m /\ j = k

\* exec marked both slots of table 2 as owned, table 1 holding owned slots
C10_Witness ==
    /\ result.kind = "exec" /\ result.out.ok /\ result.act = "own" /\ result.table = 2
    /\ result.rng = Range(Time(13, 0, 0), Time(17, 0, 0))
    /\ ~SlotIsFree(arg.sch.tables[1].timeslots[1])


(***************************************************************************)
(* The bot on its channels: every command runs to its end before the next  *)
(* one starts.  A data record is the JSON object of its message, each      *)
(* string member being the text between the quotes.                        *)
(***************************************************************************)
Users == {1, 2}
Games == {<<>>, GameAB}
Ranges == {Range(Time(0, 0, 0), NoTime), Range(Time(12, 0, 0), NoTime)}

\* the message that request_issue sends to the data channel
RequestRecord(date, rng, game, author) ==
    [action |-> "request", date |-> DateStr(date), time |-> RangeStr(rng), game |-> game,
     author_id |-> FormatInt(author), opponent_id |-> <<>>]

\* the message that cancel_issue sends to the data channel
CancelRecord(date, rng, author) ==
    [action |-> "cancel", date |-> DateStr(date), time |-> RangeStr(rng),
     author_id |-> FormatInt(author)]

\* json.loads on a string member: the text has to be free of quotes,
\* backslashes and control characters
JsonString(text) ==
    IF \E k \in 1..Len(text) : text[k] \in {"\"", "\\", NL, TAB, CR}
    THEN Raise("JSONDecodeError")
    ELSE Ok(text)

\* request['game'], None on KeyError
GameOf(request) == IF "game" \in DOMAIN request THEN request.game ELSE <<>>

\* what a handler hands to update(): the message found and the schedule
Planned(found, plan) ==
    Bind(plan, LAMBDA p : Ok([index |-> found.index, schedule |-> p.schedule]))

\* SlotManager.add
add(messages, date, timeslot_range, author, game) ==
    Bind(find_bound_schedule(messages, date, {TRUE}),
         LAMBDA found :
            IF ~found.found THEN Raise("ValidationError")
            ELSE Planned(found, add_plan(found.schedule, timeslot_range, author, <<>>, game)))

\* SlotManager.remove
remove(messages, date, timeslot_range, author) ==
    Bind(find_bound_schedule(messages, date, {TRUE}),
         LAMBDA found :
            IF ~found.found THEN Raise("ValidationError")
            ELSE Planned(found, remove_plan(found.schedule, timeslot_range, author, <<>>)))

\* SlotManager.request_validate: the qualified range
RequestChecked(messages, date, timeslot_range) ==
    Bind(find_bound_schedule(messages, date, {TRUE}),
         LAMBDA found :
            IF ~found.found THEN Raise("ValidationError")
            ELSE request_validate(found.schedule, timeslot_range))

\* SlotManager.cancel_validate: the qualified range
CancelChecked(messages, author, date, timeslot_range) ==
    Bind(find_bound_schedule(messages, date, {TRUE}),
         LAMBDA found :
            IF ~found.found THEN Raise("ValidationError")
            ELSE cancel_validate(found.schedule, author, timeslot_range))

\* SlotManager.accept from find_bound_schedule on
accept_found(messages, request, date, times, author, game) ==
    Bind(find_bound_schedule(messages, date, {TRUE}),
         LAMBDA found :
            IF ~found.found THEN Raise("ValidationError")
            ELSE IF request.action = "request"
                 THEN Planned(found,
                              accept_request_plan(found.schedule, times, author, <<>>, game))
            ELSE Planned(found, accept_cancel_plan(found.schedule, times, author)))

\* SlotManager.accept on the record of the data message
accept(messages, request) ==
    IF request.action \notin {"request", "cancel"} THEN Raise("ValidationError")
    ELSE Bind(AsValidationError(CommonDateDeserialize(request.date)),
              LAMBDA date :
                 Bind(AsValidationError(RangeDeserialize(request.time)),
                      LAMBDA times :
                         Bind(JsonString(GameOf(request)),
                              LAMBDA game :
                                 accept_found(messages, request, date, times,
                                              ParseInt(request.author_id), game))))

\* the date of a record, 0 when it does not parse
DateOf(request, date) == IF date.ok THEN date.v ELSE 0

\* how a command ended
Ended(op, date, out) ==
    last' = [op |-> op, date |-> date, err |-> IF out.ok THEN "" ELSE out.err]

\* the channel and the cache after the command
Stored(store) == readonly' = store.messages /\ schedule_cache' = store.cache

\* a slot command that writes the schedule: update() unless it raised
Wrote(op, date, out) ==
    /\ Ended(op, date, out)
    /\ IF out.ok
       THEN Stored(Update(Store(readonly, schedule_cache), out.v.index, out.v.schedule))
       ELSE UNCHANGED <<readonly, schedule_cache>>
    /\ UNCHANGED <<instance, data, tasks, arg, result>>

\* a command that issues a record: the send unless the validation raised
\* a request that is granted as it is issued: it clears the channel's cache
IssuedGranted(op, date, out, record) ==
    /\ Ended(op, date, out)
    /\ data' = IF out.ok THEN Append(data, record) ELSE data
    /\ schedule_cache' = [d \in DOMAIN schedule_cache |-> None]
    /\ UNCHANGED <<instance, readonly, tasks, arg, result>>

Issued(op, date, out, record) ==
    /\ Ended(op, date, out)
    /\ data' = IF out.ok THEN Append(data, record) ELSE data
    /\ UNCHANGED <<instance, readonly, schedule_cache, tasks, arg, result>>

\* a schedule command: what it stored before it returned or raised, then
\* regenerate_schedule_cache
Managed(op, date, out) ==
    /\ Ended(op, date, out)
    /\ IF out.ok THEN Stored(out.v) ELSE UNCHANGED <<readonly, schedule_cache>>
    /\ UNCHANGED <<instance, data, tasks, arg, result>>


\* the add command of an admin
Add ==
    \E date \in Dates, rng \in Ranges, author \in Users, game \in Games :
        Wrote("add", date, add(readonly, date, rng, author, game))

\* the remove command of an admin
Remove ==
    \E date \in Dates, rng \in Ranges, author \in Users :
        Wrote("remove", date, remove(readonly, date, rng, author))

\* the record that a validated command sends
RecordOf(out, Record(_)) == IF out.ok THEN Record(out.v) ELSE None

\* the request command of a member: request_validate, then request_issue
\* with the range that the validation qualified
RequestWith(date, author, game, out) ==
    Issued("request", date, out,
           RecordOf(out, LAMBDA rng : RequestRecord(date, rng, game, author)))

RequestFor(games) ==
    /\ Len(data) < MaxData
    /\ \E date \in Dates, rng \in Ranges, author \in Users, game \in games :
          RequestWith(date, author, game, RequestChecked(readonly, date, rng))

Request == RequestFor(Games)

\* the cancel command of a member: cancel_validate, then cancel_issue
CancelWith(date, author, out) ==
    Issued("cancel", date, out, RecordOf(out, LAMBDA rng : CancelRecord(date, rng, author)))

Cancel ==
    /\ Len(data) < MaxData
    /\ \E date \in Dates, rng \in Ranges, author \in Users :
          CancelWith(date, author, CancelChecked(readonly, author, date, rng))

\* the accept command of an admin on the record data_id
Accept ==
    \E data_id \in 1..Len(data) :
        Wrote(IF data[data_id].action = "request" THEN "accept_request" ELSE "accept_cancel",
              DateOf(data[data_id], CommonDateDeserialize(data[data_id].date)),
              accept(readonly, data[data_id]))

\* the open command of an admin, forced or not
Open ==
    \E date \in Dates, force \in BOOLEAN :
        /\ Len(readonly) < MaxMessages
        /\ Managed("open", date,
                   Bind(open_given(Store(readonly, schedule_cache), date, force),
                        regenerate_schedule_cache))

\* the close command of an admin
Close ==
    \E date \in Dates :
        Managed("close", date,
                Bind(close_given(Store(readonly, schedule_cache), date),
                     regenerate_schedule_cache))

Init == InitBot /\ arg = None /\ result = None

Next == Open \/ Close \/ Add \/ Remove \/ Request \/ Cancel \/ Accept

Spec == Init /\ [][Next]_vars


(***************************************************************************)
(* The claims about the bot on its channels.  They are stated on the       *)
(* persisted text, as a reader of the channel sees it.                     *)
(***************************************************************************)
\* the lines of a message
Lines(content) == Split(content, NL)

\* the line of a slot that holds a reservation: text follows the time
ReservedLine(line) ==
    Len(line) > 2 /\ line[1] = "-" /\ line[2] = SP /\ line[Len(line)] # ":"

\* line k of the message is the same after the step
SameLine(before, after, k) == k <= Len(after) /\ after[k] = before[k]

\* an add or an accepted request keeps every reserved line of the message
KeepsReserved(before, after) ==
    \A k \in 1..Len(before) : ReservedLine(before[k]) => SameLine(before, after, k)

\* C2: add and accept of a request assign only slots that are free in the
\* persisted record: no line of a slot that holds participants or info is
\* changed by an assignment.
C2_NoDoubleBooking ==
    [][(last'.op \in {"add", "accept_request"} /\ Len(readonly') = Len(readonly))
          => \A i \in 1..Len(readonly) :
                KeepsReserved(Lines(readonly[i]), Lines(readonly'[i]))]_vars

\* the slot 12:00am is held by member 1 for the game "a:b", and the last
\* add succeeded
C2_FailingInput ==
    /\ last.op = "add" /\ last.err = ""
    /\ \E i \in 1..Len(readonly) :
          Lines(readonly[i])[Len(Lines(readonly[i]))]
             = <<"-", SP>>
                  \o ExternalizePayload(SlotStr(Slot(Time(0, 0, 0), <<IntP(1)>>, GameAB)))

\* the header line of an open schedule of the date
OpenHeader(date) == Lines(ScheduleStr(Schedule(date, <<>>, TRUE)))[1]

\* a message of the read-only channel is an open schedule of the date
HasOpenRecord(date) ==
    \E i \in 1..Len(readonly) : Lines(Strip(readonly[i]))[1] = OpenHeader(date)

SlotCommands == {"request", "cancel", "accept_request", "accept_cancel", "add", "remove"}

\* C7: request, cancel, accept, add and remove for a date without an open
\* persisted schedule end with a validation error and leave the messages of
\* the read-only and data channels as they were.
C7_ClosedRejected ==
    [][(last'.op \in SlotCommands /\ ~HasOpenRecord(last'.date))
          => last'.err = "ValidationError" /\ readonly' = readonly /\ data' = data]_vars

\* an add was rejected while the only record of the date is closed
C7_Witness ==
    /\ last.op = "add" /\ last.err = "ValidationError"
    /\ readonly # <<>>
    /\ ~HasOpenRecord(last.date)


(***************************************************************************)
(* The bot with its handlers as coroutines.  A slot command that mutates a *)
(* schedule runs from find_bound_schedule to its call of update() and is   *)
(* suspended there; the edit of the message happens when the coroutine is  *)
(* resumed, and other handlers run in between.                             *)
(***************************************************************************)
\* a coroutine suspended at await bound_schedule.update(): the message and
\* the schedule of its BoundSchedule, and the content that it parsed
Task(op, date, planned) ==
    [op |-> op, date |-> date, index |-> planned.index, schedule |-> planned.schedule,
     read |-> readonly[planned.index]]

\* a slot command up to update(): it raised, or it is suspended
Began(op, date, out) ==
    /\ Len(tasks) < MaxTasks
    /\ IF out.ok
       THEN tasks' = Append(tasks, Task(op, date, out.v)) /\ last' = last
       ELSE tasks' = tasks /\ Ended(op, date, out)
    /\ UNCHANGED <<instance, readonly, data, schedule_cache, arg, result>>

\* the games named while handlers overlap
ConcGames == {<<>>}

RequestConc == RequestFor(ConcGames)

AddBegin ==
    \E date \in Dates, rng \in Ranges, author \in Users, game \in ConcGames :
        Began("add", date, add(readonly, date, rng, author, game))

RemoveBegin ==
    \E date \in Dates, rng \in Ranges, author \in Users :
        Began("remove", date, remove(readonly, date, rng, author))

AcceptBegin ==
    \E data_id \in 1..Len(data) :
        Began(IF data[data_id].action = "request" THEN "accept_request" ELSE "accept_cancel",
              DateOf(data[data_id], CommonDateDeserialize(data[data_id].date)),
              accept(readonly, data[data_id]))

\* the tasks without the k-th
Without(ts, k) == SubSeq(ts, 1, k - 1) \o SubSeq(ts, k + 1, Len(ts))

\* BoundSchedule.update of a resumed coroutine, and the end of its handler
Resume(k) ==
    /\ Stored(Update(Store(readonly, schedule_cache), tasks[k].index, tasks[k].schedule))
    /\ tasks' = Without(tasks, k)
    /\ last' = [op |-> tasks[k].op, date |-> tasks[k].date, err |-> ""]
    /\ UNCHANGED <<instance, data, arg, result>>

Write == \E k \in 1..Len(tasks) : Resume(k)

NextConc == Open \/ RequestConc \/ AddBegin \/ RemoveBegin \/ AcceptBegin \/ Write

SpecConc == Init /\ [][NextConc]_vars

\* C3: between the read of a date's record by accept, add or remove and
\* its write, no other write to that record happens: the message that a
\* handler edits still has the content that the handler parsed.
C3_NoInterleaving ==
    [][Len(tasks') < Len(tasks)
          => \E k \in 1..Len(tasks) :
                /\ tasks' = Without(tasks, k)
                /\ readonly[tasks[k].index] = tasks[k].read]_vars

\* two adds for the slot 12:00am of the same record are suspended at their
\* update()
C3_FailingInput ==
    /\ Len(tasks) = 2
    /\ tasks[1].op = "add" /\ tasks[2].op = "add"
    /\ tasks[1].index = tasks[2].index
    /\ tasks[1].schedule # tasks[2].schedule


(***************************************************************************)
(* The time algebra and the slot range on their own: each operation is     *)
(* applied to values drawn from small sets.                                *)
(***************************************************************************)
MaxQualify == 2

\* the times a range is built from
RangeTimes == {Time(h, 0, p) : h \in {0, 12, 13}, p \in {0, 1}}

RangeArgs ==
    {[kind |-> "range", start |-> s, end |-> e] :
        s \in RangeTimes, e \in RangeTimes \cup {NoTime}}

\* a ScheduleSlotRange object after a call: rng holds its fields (None when
\* the constructor raised), out is what the call returned or raised, given
\* and before are the end passed to qualify and the fields before the call
RangeObject(kind, rng, out, given, before, calls) ==
    [kind |-> kind, rng |-> rng, out |-> out, given |-> given, before |-> before,
     calls |-> calls]

\* ScheduleSlotRange(start, end)
RangeNewWith(out) ==
    /\ result' = RangeObject("range", IF out.ok THEN out.v ELSE None, out, NoTime, None, 0)
    /\ UNCHANGED <<bot, arg>>

RangeNew ==
    /\ arg.kind = "range" /\ result = None
    /\ RangeNewWith(ScheduleSlotRangeNew(arg.start, arg.end))

\* range.qualify(end): the end is set unless the call raised
RangeQualifyWith(end, out) ==
    /\ result' = RangeObject("qualify", IF out.ok THEN out.v ELSE result.rng, out, end,
                             result.rng, result.calls + 1)
    /\ UNCHANGED <<bot, arg>>

RangeQualify ==
    /\ arg.kind = "range" /\ result # None
    /\ result.rng # None /\ result.calls < MaxQualify
    /\ \E end \in RangeTimes : RangeQualifyWith(end, Qualify(result.rng, end))

MaxYield == 6

IterStarts == {Time(0, 0, 0), Time(12, 0, 0), Time(23, 30, 0)}
IterEnds == {Time(0, 0, 0), Time(12, 0, 0), Time(1, 0, 1)}
IterTicks == {30, 60, 12 * 60, 24 * 60, 25 * 60}

IterArgs ==
    {[kind |-> "iter", start |-> s, end |-> e, tick |-> d] :
        s \in IterStarts, e \in IterEnds, d \in IterTicks}

\* __next__ starts from a copy of the start when _current is None
IterNextOf(start, end, tick, cur) ==
    IterFrom(IF cur = NoTime THEN TimeCopy(start) ELSE cur, end, tick)

\* a MeridiemTimeIterator in a for loop: current is its _current, out the
\* value the last call returned, count the number of values returned so far
\* (counted up to MaxYield), calls the parity of the number of calls made,
\* stopped whether the last call raised StopIteration
Iterator(current, out, count, calls, stopped) ==
    [kind |-> "iter", current |-> current, out |-> out, count |-> count,
     calls |-> calls, stopped |-> stopped]

IterCount(n) == IF n < MaxYield THEN n + 1 ELSE n

IterNextWith(it, step) ==
    /\ result' = Iterator(step.current,
                          IF step.stop THEN it.out ELSE step.now,
                          IF step.stop THEN it.count ELSE IterCount(it.count),
                          1 - it.calls, step.stop)
    /\ UNCHANGED <<bot, arg>>

\* MeridiemTimeIterator(start, end, tick) and the first pass of the loop
IterFirst ==
    /\ arg.kind = "iter" /\ result = None
    /\ IterNextWith(Iterator(NoTime, NoTime, 0, 0, FALSE),
                    IterNextOf(arg.start, arg.end, arg.tick, NoTime))

\* a further pass of the loop: it ends at StopIteration
IterNext ==
    /\ arg.kind = "iter" /\ result.kind = "iter" /\ ~result.stopped
    /\ IterNextWith(result, IterNextOf(arg.start, arg.end, arg.tick, result.current))

\* the times and ticks the arithmetic is applied to
Phases == {0 - 1, 0, 1}
TickTimes == {Time(h, m, p) : h \in {0, 23}, m \in {0, 59}, p \in Phases}
Ticks ==
    {0 - 25 * 60, 0 - 24 * 60, 0 - 61, 0 - 1, 0, 1, 59, 61, 12 * 60,
     24 * 60 - 1, 24 * 60, 25 * 60}
OrderTimes == {Time(h, h, p) : h \in {0, 12, 23}, p \in Phases}

TickArgs == {[kind |-> "tick", a |-> a, t |-> n] : a \in TickTimes, n \in Ticks}
OrderArgs ==
    {[kind |-> "times", a |-> a, b |-> b, c |-> c] :
        a \in OrderTimes, b \in OrderTimes, c \in OrderTimes}

\* a + t
TickAdd == arg.kind = "tick" /\ Ran("add", TimeAdd(arg.a, arg.t))

\* a - t
TickSub == arg.kind = "tick" /\ Ran("sub", TimeSub(arg.a, arg.t))

\* MeridiemTime.infer_tick(a, a + t)
TickRoundTrip ==
    arg.kind = "tick" /\ Ran("round", InferTick(arg.a, TimeAdd(arg.a, arg.t)))

\* a < b, a == b, a > b, and b < c, a < c
\* MeridiemTime.__ge__: of two times of one phase it asks time.__gt__
TimeGe(a, b) ==
    IF a.phase = b.phase THEN a.h * 60 + a.m > b.h * 60 + b.m ELSE a.phase >= b.phase

Compare ==
    /\ arg.kind = "times"
    /\ Ran("order", [lt |-> TimeLt(arg.a, arg.b), eq |-> TimeEq(arg.a, arg.b),
                     gt |-> TimeGt(arg.a, arg.b), lt_bc |-> TimeLt(arg.b, arg.c),
                     lt_ac |-> TimeLt(arg.a, arg.c),
                     le |-> TimeLe(arg.a, arg.b), ge |-> TimeGe(arg.a, arg.b)])

\* MeridiemTime.infer_tick(a, b) and infer_tick(b, a)
Infer ==
    /\ arg.kind = "times"
    /\ Ran("infer", [tick |-> InferTick(arg.a, arg.b), back |-> InferTick(arg.b, arg.a)])

TimeArgs == RangeArgs \cup IterArgs \cup TickArgs \cup OrderArgs

InitTime ==
    /\ InitBot
    /\ arg \in TimeArgs
    /\ result = None

NextTime ==
    \/ RangeNew
    \/ RangeQualify
    \/ IterFirst
    \/ IterNext
    \/ TickAdd
    \/ TickSub
    \/ TickRoundTrip
    \/ Compare
    \/ Infer

\* a caller that started an operation carries it on
SpecTime == InitTime /\ [][NextTime]_vars /\ WF_vars(NextTime)

(***************************************************************************)
(* The scans of the read-only channel on their own: find_bound_schedule    *)
(* and process_schedules over channels that hold records that do not parse *)
(* next to records that do.                                                *)
(***************************************************************************)
MaxRecords == 3

\* the records: a text without header, the header of a Friday (which has no
\* configuration) without tables, a schedule whose table closes at 12:99pm,
\* and the open and the closed schedule of Saturday the 23rd
ScanTexts ==
    {<<"x">>,
     ScheduleStr(Schedule(22, <<>>, TRUE)),
     ScheduleStr(Schedule(23, <<Table(1, <<Slot(Time(0, 0, 0), <<>>, <<>>)>>,
                                      Time(12, 99, 0))>>, TRUE)),
     Content(ScheduleNew(23, <<>>, TRUE).v),
     Content(Schedule(23, <<>>, FALSE))}

ScanChannels == UNION {[1..n -> ScanTexts] : n \in 1..MaxRecords}

ScanArgs ==
    {[kind |-> "scan", channel |-> c, date |-> 23, opened |-> o] :
        c \in ScanChannels, o \in {{TRUE}, {FALSE}, BOOLEAN}}

InitScan ==
    /\ arg \in ScanArgs
    /\ readonly = arg.channel
    /\ data = <<>>
    /\ schedule_cache = [d \in Dates |-> None]
    /\ tasks = <<>>
    /\ last = [op |-> "on_ready", date |-> 0, err |-> ""]
    /\ instance = Started
    /\ result = None

\* find_bound_schedule(date, opened)
ScanFind ==
    /\ arg.kind = "scan"
    /\ Ran("find", find_bound_schedule(readonly, arg.date, arg.opened))

\* a scan that writes: the channel and the cache after it, if it returned
Scanned(kind, out) ==
    /\ result = None
    /\ result' = [kind |-> kind, out |-> out]
    /\ IF out.ok THEN Stored(out.v) ELSE UNCHANGED <<readonly, schedule_cache>>
    /\ UNCHANGED <<instance, data, tasks, last, arg>>

\* regenerate_schedule_cache: process_schedules(_cache)
ScanCache ==
    /\ arg.kind = "scan"
    /\ Scanned("cache", regenerate_schedule_cache(Store(readonly, schedule_cache)))

\* close_given(date): process_schedules(_close)
ScanClose ==
    /\ arg.kind = "scan"
    /\ Scanned("close", close_given(Store(readonly, schedule_cache), arg.date))

\* open_given(date, force=force, state=state)
ScanOpenWith(force, out) ==
    /\ result = None
    /\ result' = [kind |-> "open", force |-> force, out |-> out,
                  returned |-> IF out.ok THEN out.v.returned ELSE None]
    /\ IF out.ok THEN Stored(out.v.store) ELSE UNCHANGED <<readonly, schedule_cache>>
    /\ UNCHANGED <<instance, data, tasks, last, arg>>

ScanOpen ==
    /\ arg.kind = "scan"
    /\ \E force \in BOOLEAN :
          ScanOpenWith(force, OpenGiven(Store(readonly, schedule_cache), arg.date, force,
                                        arg.opened))

NextScan == ScanFind \/ ScanCache \/ ScanClose \/ ScanOpen

SpecScan == InitScan /\ [][NextScan]_vars

(***************************************************************************)
(* The singletons under construction.  A test, or any caller that catches  *)
(* the exception of a construction, goes on calling the classes; the       *)
(* attribute 'instance' starts unset or set to a foreign object.           *)
(***************************************************************************)
Sunday == DayNames[1]
Monday == DayNames[2]
Funday == <<"F", "u", "n", "d", "a", "y">>

DayEntryOf(key, config) == [key |-> key, config |-> config]
Document(has_schedule, has_days, days) ==
    [has_schedule |-> has_schedule, has_days |-> has_days, days |-> days]

\* one entry with every field, and one with 'tables' alone
FullDay ==
    [f \in DayFields |->
        IF f = "tables" THEN 2
        ELSE IF f = "start_time" THEN Time(13, 0, 0)
        ELSE IF f = "end_time" THEN Time(17, 0, 0)
        ELSE 120]
TablesOnly == [f \in {"tables"} |-> 2]

\* the documents: without 'schedule', without 'days', with a key that is no
\* weekday, with a day that lacks fields after a complete one, with a
\* capitalised weekday key, and three that load
NoSchedule == Document(FALSE, FALSE, NoDays)
NoDaysSection == Document(TRUE, FALSE, NoDays)
BadWeekday ==
    Document(TRUE, TRUE, <<DayEntryOf(Lower(Sunday), FullDay), DayEntryOf(Lower(Funday), FullDay)>>)
MissingField ==
    Document(TRUE, TRUE, <<DayEntryOf(Lower(Sunday), FullDay), DayEntryOf(Lower(Monday), TablesOnly)>>)
CapitalKey == Document(TRUE, TRUE, <<DayEntryOf(Sunday, FullDay)>>)
EmptyDays == Document(TRUE, TRUE, NoDays)
OneDay == Document(TRUE, TRUE, <<DayEntryOf(Lower(Sunday), FullDay)>>)
TwoDays ==
    Document(TRUE, TRUE, <<DayEntryOf(Lower(Sunday), FullDay), DayEntryOf(Lower(Monday), FullDay)>>)
BadDocuments == {NoSchedule, NoDaysSection, BadWeekday, MissingField}
Documents == BadDocuments \cup {CapitalKey, EmptyDays, OneDay, TwoDays}

DateFormats == {<<"%", "m", "/", "%", "d", "/", "%", "Y">>, <<"%", "d", "/", "%", "m", "/", "%", "Y">>}
AskedDays == {Sunday, Monday, Funday}

\* the dates today() gives: one week, 09/24/2023 being a Sunday
Todays == 18..24
\* the days asked for: the weekday names as strftime writes them, one in
\* lower case, no weekday and a date
GivenDays ==
    {DayNames[n] : n \in 1..7}
        \cup {Lower(DayNames[4]), Funday, <<"3", "1", "/", "0", "/", "2", "0", "0", "0">>}

InitSingleton ==
    /\ readonly = <<>>
    /\ data = <<>>
    /\ schedule_cache = [d \in Dates |-> None]
    /\ tasks = <<>>
    /\ last = [op |-> "on_ready", date |-> 0, err |-> ""]
    /\ instance \in [ScheduleConfig : {Absent, Foreign}, DateTranslator : {Absent, Foreign},
                     created : {0}]
    /\ arg = None
    /\ result = None

\* a call of a class: arg keeps the call and the value of cls.instance it
\* found, result how it ended
Called(kind, class, input, out) ==
    /\ arg' = [kind |-> kind, class |-> class, input |-> input, before |-> instance[class]]
    /\ result' = out
    /\ UNCHANGED <<readonly, data, schedule_cache, tasks, last>>

\* cls(...): __new__, then __init__ on what it returned
Constructed(class, input, r) ==
    /\ instance' = [instance EXCEPT ![class] = r.self,
                                    !.created = IF NoInstance(instance[class]) THEN @ + 1 ELSE @]
    /\ Called("construct", class, input, IF r.out.ok THEN Ok(r.self) ELSE r.out)

ConfigConstruct ==
    \E doc \in Documents :
        Constructed("ScheduleConfig", doc,
                    ConfigInit(SingletonNew(instance.ScheduleConfig,
                                            ConfigObject(instance.created + 1)), doc))

TranslatorConstruct ==
    \E date_format \in DateFormats :
        Constructed("DateTranslator", date_format,
                    TranslatorInit(SingletonNew(instance.DateTranslator,
                                                TranslatorObject(instance.created + 1)),
                                   date_format))

CallSingleton ==
    \E class \in {"ScheduleConfig", "DateTranslator"} :
        /\ Called("singleton", class, None, Singleton(instance[class]))
        /\ UNCHANGED instance

CallGetDay ==
    \E day \in AskedDays :
        /\ Called("get_day", "ScheduleConfig", day, ConfigGetDay(instance.ScheduleConfig, day))
        /\ UNCHANGED instance

CallDateFromDay ==
    \E today \in Todays, day \in GivenDays :
        /\ Called("date_from_day", "DateTranslator", [today |-> today, day |-> day],
                  DateFromDay(instance.DateTranslator, today, day))
        /\ UNCHANGED instance

NextSingleton ==
    \/ ConfigConstruct
    \/ TranslatorConstruct
    \/ CallSingleton
    \/ CallGetDay
    \/ CallDateFromDay

SpecSingleton == InitSingleton /\ [][NextSingleton]_vars

(***************************************************************************)
(* The bot started on a channel that holds the records of an earlier run:  *)
(* open and closed schedules of Saturday 09/23 and Sunday 09/24 and a      *)
(* message that is no schedule.  The cache starts empty, as __init__       *)
(* leaves it; on_ready does not fill it.                                   *)
(***************************************************************************)
MaxKept == 2
KeptDates == {23, 24}
KeptTexts ==
    {Content(ScheduleNew(d, <<>>, TRUE).v) : d \in KeptDates}
        \cup {Content(Schedule(d, <<>>, FALSE)) : d \in KeptDates}
        \cup {<<"x">>}
KeptChannels == UNION {[1..n -> KeptTexts] : n \in 0..MaxKept}

InitKept ==
    /\ readonly \in KeptChannels
    /\ data = <<>>
    /\ schedule_cache = [d \in KeptDates |-> None]
    /\ tasks = <<>>
    /\ last = [op |-> "on_ready", date |-> 0, err |-> ""]
    /\ instance = Started
    /\ arg = None
    /\ result = None

\* the end of the clean command: regenerate_schedule_cache
CleanRegenerated(c) ==
    Bind(regenerate_schedule_cache(c.store), LAMBDA store : Ok([c EXCEPT !.store = store]))

\* the answer of the clean command of one date
CleanResponse(still_open) == IF still_open THEN "Unable to clean" ELSE "Cleaned schedule"

\* a clean command: arg keeps the channel it found, result the open
\* schedules it passed over, what clean_given returned and the answer sent
Cleaned(op, date, out) ==
    /\ Ended(op, date, out)
    /\ arg' = [kind |-> "clean", date |-> date, before |-> readonly]
    /\ result' = [kind |-> "clean", skipped |-> IF out.ok THEN out.v.skipped ELSE <<>>,
                  still_open |-> out.ok /\ out.v.open_still,
                  response |-> IF ~out.ok THEN "raised"
                               ELSE IF op = "clean_until" THEN "Cleaned schedules until"
                               ELSE CleanResponse(out.v.open_still)]
    /\ IF out.ok THEN Stored(out.v.store) ELSE UNCHANGED <<readonly, schedule_cache>>
    /\ UNCHANGED <<instance, data, tasks>>

\* the clean command of an admin on one date
CleanGiven ==
    \E date \in KeptDates :
        Cleaned("clean_given", date,
                Bind(clean_given(Store(readonly, schedule_cache), date), CleanRegenerated))

\* the clean command of an admin with 'until'
CleanUntil ==
    \E date \in KeptDates :
        Cleaned("clean_until", date,
                Bind(clean_until(Store(readonly, schedule_cache), date), CleanRegenerated))

\* the add command of an admin for member 1 on the slot of 12:00am
AddFirst ==
    \E date \in Dates :
        Wrote("add", date, add(readonly, date, Range(Time(0, 0, 0), NoTime), 1, <<>>))

NextKept == CleanGiven \/ CleanUntil \/ Open \/ Close \/ AddFirst

SpecKept == InitKept /\ [][NextKept]_vars

(***************************************************************************)
(* cogs/cog_schedule.py: the nightly run and the commands with 'until'.    *)
(* The day DateTranslator.today() gives and the nightly section of the     *)
(* configuration are inputs of a run.  The 22nd is a Friday and the 26th a *)
(* Tuesday, days the store's configuration has no entry for.               *)
(***************************************************************************)
MaxNight == 2
NightDates == 22..26
NightTodays == {22, 23, 25}
NightlyConfigs ==
    [open_ahead : {0, 1}, close_behind : {0, 1}, clean_behind : {1, 2}]

\* the schedule of the 23rd with its slot of 12:00am reserved by member 1
Reserved ==
    Content(add(<<Content(ScheduleNew(23, <<>>, TRUE).v)>>, 23,
                Range(Time(0, 0, 0), NoTime), 1, <<>>).v.schedule)
\* the messages a channel starts with: the date of the record, 0 for a
\* message that is no schedule, whether it is open, and the text
NightMessage(date, open, text) == [date |-> date, open |-> open, text |-> text]
NightMessages ==
    {NightMessage(d, TRUE, Content(ScheduleNew(d, <<>>, TRUE).v)) : d \in KeptDates}
        \cup {NightMessage(d, FALSE, Content(Schedule(d, <<>>, FALSE))) : d \in KeptDates}
        \cup {NightMessage(23, TRUE, Reserved), NightMessage(0, FALSE, <<"x">>)}
\* open_given leaves one open schedule of a date at most
OneOpen(c) ==
    \A i, j \in DOMAIN c : (i < j /\ c[i].open /\ c[j].open) => c[i].date # c[j].date
NightChannels ==
    {[i \in DOMAIN c |-> c[i].text] :
        c \in {k \in UNION {[1..n -> NightMessages] : n \in 0..MaxNight} : OneOpen(k)}}

InitNight ==
    /\ readonly \in NightChannels
    /\ data = <<>>
    /\ schedule_cache = [d \in NightDates |-> None]
    /\ tasks = <<>>
    /\ last = [op |-> "on_ready", date |-> 0, err |-> ""]
    /\ instance = Started
    /\ arg = None
    /\ result = None

\* the end of a step of the nightly run or of a command with 'until'
NightlyDone(store, out) ==
    IF out.ok THEN Reached(out.v, "") ELSE Reached(store, out.err)

\* nightly_clean and regenerate_schedule_cache
NightlyClean(store, clean_date) ==
    NightlyDone(store, Bind(clean_until(store, clean_date),
                            LAMBDA c : regenerate_schedule_cache(c.store)))

\* nightly_close and what follows it
NightlyClose(store, out, clean_date) ==
    IF out.ok THEN NightlyClean(out.v, clean_date) ELSE Reached(store, out.err)

\* a nightly run that closes before it opens
NightlyCloseFirst(store, today, config) ==
    NightlyClean(open_until(NightlyDone(store, close_until(store,
                                                           today - config.close_behind)).store,
                            today, today + config.open_ahead, FALSE, BOOLEAN).store,
                 today - config.clean_behind)

\* what follows nightly_open
NightlyOpen(reached, start_date, clean_date) ==
    IF reached.err # "" THEN reached
    ELSE NightlyClose(reached.store, close_until(reached.store, start_date), clean_date)

\* ScheduleManager.nightly on the day today
nightly(store, today, config) ==
    NightlyOpen(open_until(store, today, today + config.open_ahead, FALSE, BOOLEAN),
                today - config.close_behind, today - config.clean_behind)

\* the end of a run: arg keeps the day, the inputs and the channel found
Nighted(op, today, input, reached) ==
    /\ last' = [op |-> op, date |-> today, err |-> reached.err]
    /\ arg' = [kind |-> op, today |-> today, input |-> input, before |-> readonly]
    /\ result' = [kind |-> op, err |-> reached.err]
    /\ Stored(reached.store)
    /\ UNCHANGED <<instance, data, tasks>>

\* nightly_task
Nightly ==
    /\ result = None
    /\ \E today \in NightTodays, config \in NightlyConfigs :
        Nighted("nightly", today, config,
                nightly(Store(readonly, schedule_cache), today, config))

\* what follows open_until in the open command
OpenUntilRegenerate(reached) ==
    IF reached.err # "" THEN reached
    ELSE NightlyDone(reached.store, regenerate_schedule_cache(reached.store))

\* the open command of an admin with 'until'
OpenUntil ==
    \E today \in NightTodays, ahead \in {0, 1}, force \in BOOLEAN :
        /\ result = None
        /\ Nighted("open_until", today, [date |-> today + ahead, force |-> force],
                   OpenUntilRegenerate(open_until(Store(readonly, schedule_cache), today,
                                                  today + ahead, force, {TRUE})))

\* the close command of an admin with 'until'
CloseUntil ==
    \E date \in KeptDates :
        Managed("close_until", date,
                Bind(close_until(Store(readonly, schedule_cache), date),
                     regenerate_schedule_cache))

NextNight == Nightly \/ OpenUntil \/ CloseUntil

SpecNight == InitNight /\ [][NextNight]_vars

(***************************************************************************)
(* The claims about ranges and times.  A time is placed on the line of     *)
(* minutes: the phase counts days, the clock counts minutes of the day.    *)
(***************************************************************************)
MinutesOfDay == 24 * 60

\* the minute of a time on the line of minutes
AbsMinutes(t) == t.phase * MinutesOfDay + t.h * 60 + t.m

\* the time at a minute of the line
TimeAt(n) == Time((n % MinutesOfDay) \div 60, n % 60, n \div MinutesOfDay)

\* the time is a slot time or the closing time of the table
IsBoundary(table, t) ==
    \/ \E i \in 1..Len(table.timeslots) : table.timeslots[i].time = t
    \/ table.closing = t

\* the granularity of a table: from its first slot to the second, or to the
\* closing time when there is one slot
Granularity(table) ==
    IF Len(table.timeslots) = 1
    THEN AbsMinutes(table.closing) - AbsMinutes(table.timeslots[1].time)
    ELSE AbsMinutes(table.timeslots[2].time) - AbsMinutes(table.timeslots[1].time)

\* the range with its end filled in from the granularity of the first table
Qualified(sch, rng) ==
    IF rng.end # NoTime THEN rng
    ELSE Range(rng.start, TimeAt(AbsMinutes(rng.start) + Granularity(sch.tables[1])))

\* both ends of the range are boundaries of every table
OnBoundaries(sch, rng) ==
    \A n \in 1..Len(sch.tables) :
        IsBoundary(sch.tables[n], rng.start) /\ IsBoundary(sch.tables[n], rng.end)

\* C11: qualify_slotrange fills the end of an indeterminate range with the
\* start plus the granularity of the table, returns the range exactly when
\* its start and its end are a slot time or the closing time of every table,
\* and raises ValueError otherwise.
C11_QualifyValidates ==
    result.kind = "qualify" =>
        IF OnBoundaries(arg.sch, Qualified(arg.sch, arg.rng))
        THEN result.out = Ok(Qualified(arg.sch, arg.rng))
        ELSE result.out = Raise("ValueError")

\* qualify_slotrange ran on Saturday's schedule with the range 12:00pm
C11_FailingInput ==
    /\ result.kind = "qualify"
    /\ arg.sch.date = 23
    /\ arg.rng = Range(Time(12, 0, 0), NoTime)


\* C12: a range built with an end at or before its start is refused with a
\* ValueError; qualify on an indeterminate range with such an end raises
\* ValueError and leaves it indeterminate; qualify on a range that has an
\* end raises RuntimeError and leaves the end as it is; an end that is set
\* is later than the start.
C12_RangeEndOnce ==
    /\ (result # None /\ result.kind = "range") =>
          IF arg.end # NoTime /\ AbsMinutes(arg.end) <= AbsMinutes(arg.start)
          THEN result.out = Raise("ValueError")
          ELSE result.out = Ok(Range(arg.start, arg.end))
    /\ (result # None /\ result.kind = "qualify") =>
          IF result.before.end # NoTime
          THEN result.out = Raise("RuntimeError") /\ result.rng = result.before
          ELSE IF AbsMinutes(result.given) <= AbsMinutes(arg.start)
               THEN result.out = Raise("ValueError") /\ result.rng = result.before
          ELSE result.out.ok /\ result.rng = Range(arg.start, result.given)
    /\ (result # None /\ result.kind \in {"range", "qualify"} /\ result.rng # None
        /\ result.rng.end # NoTime) =>
          AbsMinutes(result.rng.start) < AbsMinutes(result.rng.end)

\* qualify was called on a range whose end an earlier qualify had set
C12_Witness ==
    /\ result # None /\ result.kind = "qualify"
    /\ arg.end = NoTime
    /\ result.before.end # NoTime
    /\ result.out = Raise("RuntimeError")


\* the k-th multiple of the tick after the start, in absolute minutes
Multiple(k) == AbsMinutes(arg.start) + k * arg.tick

\* C13: the iterator returns, in order, the times start + k*tick for which
\* start + (k+1)*tick is not after the end, and stops at the first k for
\* which it is.
C13_IteratorYields ==
    (result.kind = "iter" /\ result.count < MaxYield) =>
        IF result.stopped
        THEN Multiple(result.count + 1) > AbsMinutes(arg.end)
        ELSE /\ result.out = TimeAt(Multiple(result.count - 1))
             /\ Multiple(result.count) <= AbsMinutes(arg.end)

\* the iterator from 12:00am to 12:00pm in steps of 25 hours returned a value
C13_FailingInput ==
    /\ arg = [kind |-> "iter", start |-> Time(0, 0, 0), end |-> Time(12, 0, 0),
              tick |-> 25 * 60]
    /\ result.kind = "iter" /\ result.count = 1 /\ ~result.stopped

\* C13 for steps of less than a day
ShortTickYields == (arg.kind = "iter" /\ arg.tick < MinutesOfDay) => C13_IteratorYields

\* C14: for every start, end and positive tick the loop over the iterator
\* reaches StopIteration.
C14_IteratorStops == (arg.kind = "iter") ~> (result.kind = "iter" /\ result.stopped)

\* the iterator from 12:00am to 12:00pm in steps of 24 hours has returned
\* 12:00am MaxYield times and stands at 12:00am
C14_FailingInput ==
    /\ arg = [kind |-> "iter", start |-> Time(0, 0, 0), end |-> Time(12, 0, 0),
              tick |-> 24 * 60]
    /\ result.kind = "iter" /\ result.count = MaxYield /\ ~result.stopped
    /\ result.current = Time(0, 0, 0) /\ result.out = Time(0, 0, 0)


\* C15: infer_tick(a, a + t) is t for every time a and every tick t that is
\* not negative.
C15_RoundTrip == (result.kind = "round" /\ arg.t >= 0) => result.out = arg.t

\* infer_tick(11:59pm, 11:59pm + 25hr) was computed
C15_FailingInput ==
    /\ result.kind = "round"
    /\ arg.a = Time(23, 59, 0) /\ arg.t = 25 * 60

\* C15 for ticks of less than a day
ShortRoundTrip ==
    (result.kind = "round" /\ arg.t >= 0 /\ arg.t < MinutesOfDay) => result.out = arg.t

\* the number of the comparisons a < b, a == b, a > b that hold
Holding(r) ==
    (IF r.lt THEN 1 ELSE 0) + (IF r.eq THEN 1 ELSE 0) + (IF r.gt THEN 1 ELSE 0)

\* C16: of a < b, a == b, a > b exactly one holds for times of one phase, <
\* is transitive, and of two times of different phases the one of the higher
\* phase is the later one and they are not equal.
C16_TotalOrder ==
    result.kind = "order" =>
        /\ arg.a.phase = arg.b.phase => Holding(result.out) = 1
        /\ (result.out.lt /\ result.out.lt_bc) => result.out.lt_ac
        /\ arg.a.phase # arg.b.phase =>
              /\ ~result.out.eq
              /\ result.out.lt <=> arg.a.phase < arg.b.phase
              /\ result.out.gt <=> arg.a.phase > arg.b.phase

\* 11:23pm of one day was compared with 12:00am of the next and is earlier
C16_Witness ==
    /\ result.kind = "order"
    /\ arg.a = Time(23, 23, 0) /\ arg.b = Time(0, 0, 1)
    /\ result.out.lt /\ ~result.out.gt /\ ~result.out.eq

\* the minutes of the clock of a time
ClockMinutes(t) == t.h * 60 + t.m

\* C17: infer_tick(a, b) is (b.phase - a.phase) * 1440 + (clock minutes of b
\* - clock minutes of a) minutes for all phases, and infer_tick(b, a) is its
\* negation.
C17_SignedDifference ==
    result.kind = "infer" =>
        /\ result.out.tick = (arg.b.phase - arg.a.phase) * MinutesOfDay
                             + (ClockMinutes(arg.b) - ClockMinutes(arg.a))
        /\ result.out.back = -result.out.tick

\* the tick from 11:23pm of the day before to 12:12pm of the day after
C17_Witness ==
    /\ result.kind = "infer"
    /\ arg.a = Time(23, 23, 0 - 1) /\ arg.b = Time(12, 12, 1)
    /\ result.out.tick = 2 * MinutesOfDay - 671
    /\ result.out.back < 0

\* a time of the clock
IsClockTime(t) == t.h \in 0..23 /\ t.m \in 0..59

\* C18: a + t and a - t are the times whose absolute minute count is that
\* of a plus and minus the signed minutes of t; a - t is a + (-t) and a + t
\* is a - (-t).
C18_TickArithmetic ==
    /\ result.kind = "add" =>
          /\ IsClockTime(result.out)
          /\ AbsMinutes(result.out) = AbsMinutes(arg.a) + arg.t
          /\ result.out = TimeSub(arg.a, TickNeg(arg.t))
    /\ result.kind = "sub" =>
          /\ IsClockTime(result.out)
          /\ AbsMinutes(result.out) = AbsMinutes(arg.a) - arg.t
          /\ result.out = TimeAdd(arg.a, TickNeg(arg.t))

\* 11:59pm + 25hr was computed and is 12:59am of the next day
C18_FailingInput ==
    /\ result.kind = "add"
    /\ arg.a = Time(23, 59, 0) /\ arg.t = 25 * 60
    /\ result.out = Time(0, 59, 1)

\* C18 for ticks of less than a day in either direction
ShortTickArithmetic ==
    (arg.kind = "tick" /\ TickAbs(arg.t) < MinutesOfDay) => C18_TickArithmetic


\* the number of slots of a day: the k with start + (k + 1) * duration not
\* after the end
SlotCount(cfg) ==
    Cardinality({k \in 0..MinutesOfDay :
                    AbsMinutes(cfg.start_time) + (k + 1) * cfg.slot_duration
                        <= AbsMinutes(cfg.end_time)})

\* the table is the one of the number, closes at the end of the day and has
\* the slots start, start + duration, ... in this order, all free
IsGenerated(table, number, cfg) ==
    /\ table.number = number
    /\ table.closing = cfg.end_time
    /\ Len(table.timeslots) = SlotCount(cfg)
    /\ \A k \in 1..Len(table.timeslots) :
          /\ table.timeslots[k].time
                = TimeAt(AbsMinutes(cfg.start_time) + (k - 1) * cfg.slot_duration)
          /\ IsFree(table.timeslots[k])

\* C19: an open schedule built without tables for a configured weekday has
\* the tables 1..N of the configuration, each closing at the end time and
\* holding the free slots S, S+D, ... with S+(k+1)D not after E; for a
\* weekday without configuration the construction fails.
C19_GeneratedSchedule ==
    result.kind = "generate" =>
        IF DayIndex(DayFromDate(arg.date)) \in ConfigDays
        THEN /\ result.out.ok
             /\ result.out.v.open /\ result.out.v.date = arg.date
             /\ Len(result.out.v.tables) = DayConfigs[DayIndex(DayFromDate(arg.date))].tables
             /\ \A n \in 1..Len(result.out.v.tables) :
                   IsGenerated(result.out.v.tables[n], n,
                               DayConfigs[DayIndex(DayFromDate(arg.date))])
        ELSE ~result.out.ok

\* the schedule of Monday the 25th was built and has slots
C19_FailingInput ==
    /\ result.kind = "generate" /\ arg.date = 25
    /\ result.out.ok
    /\ Len(result.out.v.tables[1].timeslots) = 3

\* C19 for the days whose slot duration is less than a day
ShortGeneratedSchedule ==
    (arg.kind = "generate" /\ arg.date # 25) => C19_GeneratedSchedule


\* C20: every closed schedule carries no tables; the schedules of the cache
\* are among them.
C20_ClosedHasNoTables ==
    \A d \in DOMAIN schedule_cache :
        (schedule_cache[d] # None /\ ~schedule_cache[d].open) =>
            schedule_cache[d].tables = <<>>

\* the close command ran on the open schedule of Saturday the 23rd: the
\* cache holds it closed, with its table
C20_FailingInput ==
    /\ last.op = "close" /\ last.date = 23 /\ last.err = ""
    /\ schedule_cache[23] # None /\ ~schedule_cache[23].open
    /\ Len(schedule_cache[23].tables) = 1
    /\ \E i \in 1..Len(readonly) :
          readonly[i] = Content(Schedule(23, <<>>, FALSE))


(***************************************************************************)
(* The claims about the slot, the codec and the configuration.             *)
(***************************************************************************)
\* C21: free() leaves a slot with no participants and no info, so that
\* is_free() holds, and free() on the freed slot changes nothing.
C21_FreeIdempotent ==
    result.kind = "free" =>
        /\ result.slot.participants = <<>> /\ result.slot.info = <<>>
        /\ IsFree(result.slot)
        /\ result.slot.time = arg.x.time
        /\ result.again = result.slot

\* the slot 1:00pm of "1" and "2" with the info "x" was freed
C21_Witness ==
    /\ result.kind = "free"
    /\ arg.x = Slot(Time(13, 0, 0), <<StrP(One), StrP(Two)>>, GameX)
    /\ IsFree(result.again)


\* the records of the channel that parse, and those among them that
\* find_bound_schedule looks for
Parses(channel) == {i \in 1..Len(channel) : ParseMessage(channel[i]).ok}
Sought(channel, date, opened) ==
    {i \in Parses(channel) : IsBound(ParseMessage(channel[i]).v, date, opened)}
Lowest(s) == CHOOSE i \in s : \A j \in s : i <= j
Highest(s) == CHOOSE i \in s : \A j \in s : j <= i

\* find_bound_schedule returned the first record sought, whatever stands
\* before it
FoundFirst(out, sought) ==
    IF sought = {} THEN out = NotFound
    ELSE out.found /\ out.index = Lowest(sought)

\* the cache holds the schedule of the last record that parses
CachedLast(channel, parses) ==
    IF parses = {} THEN schedule_cache[23] = None
    ELSE /\ schedule_cache[23] # None
         /\ ScheduleStr(schedule_cache[23])
              = ScheduleStr(ParseMessage(channel[Highest(parses)]).v)

\* every open record of the date is closed and the others are as they were
ClosedAll(channel, date) ==
    /\ Len(readonly) = Len(channel)
    /\ \A i \in 1..Len(channel) :
          readonly[i] = IF i \in Sought(channel, date, {TRUE})
                        THEN Content(Schedule(date, <<>>, FALSE))
                        ELSE channel[i]

\* C22: a scan of the records returns whatever records fail to parse: they
\* are skipped, and the records that parse are found and processed as if
\* the others were not there.
C22_MalformedSkipped ==
    /\ result.kind \in {"find", "cache", "close"} => result.out.ok
    /\ result.kind = "find" =>
          FoundFirst(result.out.v, Sought(arg.channel, arg.date, arg.opened))
    /\ result.kind = "cache" => CachedLast(arg.channel, Parses(arg.channel))
    /\ result.kind = "close" => ClosedAll(arg.channel, arg.date)

\* the open schedule of the 23rd was found behind two records that do not
\* parse
C22_Witness ==
    /\ result.kind = "find"
    /\ Len(arg.channel) = 3
    /\ arg.channel[1] = <<"x">>
    /\ ~ParseMessage(arg.channel[2]).ok
    /\ result.out.ok /\ result.out.v.found /\ result.out.v.index = 3


\* C23: each of the four deserialize functions raises ValueError on a text
\* that does not match its pattern.
C23_FormatError ==
    (result.kind = "deserialize" /\ ~result.matched) => result.out = Raise("ValueError")

\* ScheduleTable.deserialize('x') was called
C23_FailingInput ==
    /\ result.kind = "deserialize"
    /\ arg.codec = "table" /\ arg.raw = <<"x">>
    /\ ~result.matched /\ result.out = Raise("AttributeError")

\* C23 for the three other classes
OtherFormatError == (arg.kind = "text" /\ arg.codec # "table") => C23_FormatError


\* the ends that have the form of a time, and the one that is a time
TimeTokens == RangeEnds \ {<<>>, <<"b", "a", "d">>}
SixAM == <<"6", ":", "0", "0", "a", "m">>

\* the end that the defaults give to the start 2:00am
DefaultEnd(default_end, default_interval) ==
    IF default_interval # 0 THEN TimeAt(AbsMinutes(Time(2, 0, 0)) + default_interval)
    ELSE default_end

\* C24: the defaults (or an indeterminate range) are the answer only for a
\* text without any end; a separator without end, an end without separator
\* and an end that is no valid time are refused with ValueError.
C24_NoSilentDefault ==
    result.kind = "range_text" =>
        IF arg.default_end # NoTime /\ arg.default_interval # 0
        THEN result.out = Raise("ValueError")
        ELSE IF arg.sep = <<>> /\ arg.end \notin TimeTokens
        THEN result.out = Ok(Range(Time(2, 0, 0),
                                   DefaultEnd(arg.default_end, arg.default_interval)))
        ELSE IF arg.sep # <<>> /\ arg.end = SixAM
        THEN result.out = Ok(Range(Time(2, 0, 0), Time(6, 0, 0)))
        ELSE result.out = Raise("ValueError")

\* '2:00am-9:99pm' was deserialized without defaults and gave the
\* indeterminate range 2:00am
C24_FailingInput ==
    /\ result.kind = "range_text"
    /\ arg.sep = <<"-">> /\ arg.end = <<"9", ":", "9", "9", "p", "m">>
    /\ arg.default_end = NoTime /\ arg.default_interval = 0
    /\ result.out = Ok(Range(Time(2, 0, 0), NoTime))

\* C24 for the ends that are a time or have not the form of one
ValidEndNoDefault ==
    (arg.kind = "range_text"
     /\ arg.end \notin {<<"9", ":", "9", "9", "p", "m">>, <<"6", ":", "0", "0", "x", "x">>})
        => C24_NoSilentDefault

(***************************************************************************)
(* The claims about the singletons.  A call state keeps in arg.before the  *)
(* value of cls.instance the call found.                                   *)
(***************************************************************************)
Initialized(attr) == attr.kind = "object" /\ "initialized" \in attr.attrs

\* an object whose construction failed
Partial(attr) == attr.kind = "object" /\ "initialized" \notin attr.attrs

OnConfig(kinds) == arg.kind \in kinds /\ arg.class = "ScheduleConfig"

\* C25: constructing ScheduleConfig from a document without 'schedule',
\* without 'days', with a key that is no weekday or with a day that lacks a
\* field fails with ConfigError, and afterwards singleton() and get_day()
\* answer as on a class that was never constructed: SingletonNotExist.
C25_NoPartialConfig ==
    /\ (OnConfig({"construct"}) /\ arg.input \in BadDocuments /\ ~Initialized(arg.before))
           => result = Raise("ConfigError")
    /\ (OnConfig({"singleton", "get_day"}) /\ Partial(arg.before))
           => result = Raise("SingletonNotExist")

\* after the construction from a bad document failed, singleton() returned
\* the object that construction left behind
C25_FailingInput ==
    /\ OnConfig({"singleton"}) /\ Partial(arg.before)
    /\ "_config" \in arg.before.attrs
    /\ result = Ok(arg.before)

\* C25 for the construction alone: every bad document is refused with
\* ConfigError and never leaves an initialized object
BadDocumentRefused ==
    (OnConfig({"construct"}) /\ arg.input \in BadDocuments /\ ~Initialized(arg.before))
        => result = Raise("ConfigError") /\ Partial(instance.ScheduleConfig)

\* C26: on both classes singleton() raises SingletonNotExist while the
\* attribute 'instance' is unset or holds a foreign object, and returns the
\* constructed object once a construction has succeeded; a construction on
\* the constructed class raises SingletonExist and leaves the object and
\* its settings as they were; singleton() and get_day() never change them.
C26_SingletonProtocol ==
    /\ arg.kind = "singleton" =>
           /\ NoInstance(arg.before) => result = Raise("SingletonNotExist")
           /\ Initialized(arg.before) => result = Ok(arg.before)
    /\ arg.kind = "construct" =>
           IF Initialized(arg.before)
           THEN result = Raise("SingletonExist") /\ instance[arg.class] = arg.before
           ELSE result.ok => result.v = instance[arg.class] /\ Initialized(result.v)
    /\ arg.kind \in {"singleton", "get_day"} => instance[arg.class] = arg.before

\* a construction found the class constructed and was refused
C26_Witness ==
    /\ arg.kind = "construct"
    /\ Initialized(arg.before)
    /\ result = Raise("SingletonExist")
    /\ instance[arg.class] = arg.before

\* C27: with the translator constructed, date_from_day(day) on a weekday
\* name in any case gives the date d with today <= d <= today + 6 whose
\* weekday is day, which is today when today is that weekday; a text that
\* is no weekday name raises ValueError.
C27_DateFromDay ==
    (arg.kind = "date_from_day" /\ Initialized(arg.before)) =>
        IF \E n \in 1..7 : Lower(DayNames[n]) = Lower(arg.input.day)
        THEN /\ result.ok
             /\ arg.input.today <= result.v /\ result.v <= arg.input.today + 6
             /\ Lower(DayFromDate(result.v)) = Lower(arg.input.day)
             /\ (Lower(DayFromDate(arg.input.today)) = Lower(arg.input.day)
                     => result.v = arg.input.today)
        ELSE result = Raise("ValueError")

\* the translator was asked for Sunday on Sunday the 24th, or on Saturday
\* the 23rd
C27_Witness ==
    /\ arg.kind = "date_from_day" /\ Initialized(arg.before)
    /\ arg.input.day = Sunday
    /\ \/ arg.input.today = 24 /\ result = Ok(24)
       \/ arg.input.today = 23 /\ result = Ok(24)

(***************************************************************************)
(* The claims about the channel: the mention transforms, the cache and     *)
(* the cleaning.                                                           *)
(***************************************************************************)
\* C28: internalize_payload(externalize_payload(t)) is t for every text t
\* that Schedule.serialize writes, and the mentions <@id> and <@!id>
\* internalize to the same text, the id between escape tokens.
C28_MentionRoundTrip ==
    /\ result.kind = "payload" => result.back = result.text
    /\ result.kind = "mention" =>
           /\ result.plain = result.nick
           /\ result.plain = <<ESCAPE_TOKEN>> \o arg.id \o <<ESCAPE_TOKEN>>

\* the schedule whose slot has the info '<@5>' came back with the info '%5%'
C28_FailingInput ==
    /\ result.kind = "payload"
    /\ arg.x.tables[1].timeslots[1].info = Mention5
    /\ result.back # result.text
    /\ result.back = ScheduleStr([arg.x EXCEPT !.tables[1].timeslots[1].info = <<"%", "5", "%">>])

\* C28 for the schedules without a mention in the info, and for the mentions
MentionFreeRoundTrip ==
    (arg.kind = "payload" => arg.x.tables[1].timeslots[1].info \notin {Mention5, Nickname5})
        => C28_MentionRoundTrip

\* the record that a message holds is one of date d
RecordDated(parsed, d) == parsed.ok /\ parsed.v.date = d

\* a schedule record for the date d is persisted
Persisted(d) == \E i \in 1..Len(readonly) : RecordDated(ParseMessage(readonly[i]), d)

Coherent ==
    \A d \in DOMAIN schedule_cache :
        /\ schedule_cache[d] # None <=> Persisted(d)
        /\ schedule_cache[d] # None
               => \E i \in 1..Len(readonly) : readonly[i] = Content(schedule_cache[d])

\* C29: when a schedule command has completed, the cache has an entry for a
\* date exactly if a record of that date is persisted, and the entry
\* serializes to the content of a persisted record; a cleaned schedule has
\* no entry.
C29_CacheCoherent == (last.op # "on_ready" /\ last.err = "") => Coherent

\* the bot started on a channel with the open schedules of 09/23 and 09/24,
\* and add on 09/23 completed: the cache has no entry for 09/24
C29_FailingInput ==
    /\ last.op = "add" /\ last.err = ""
    /\ Len(readonly) = 2
    /\ Persisted(24)
    /\ schedule_cache[23] # None
    /\ schedule_cache[24] = None

\* C29 for the commands that end with regenerate_schedule_cache
ManagedCoherent ==
    (last.op \in {"open", "close", "clean_given", "clean_until"} /\ last.err = "") => Coherent

\* the message is a closed record that the clean is to delete
ToClean(parsed, date, until) ==
    /\ parsed.ok
    /\ ~parsed.v.open
    /\ IF until THEN parsed.v.date <= date ELSE parsed.v.date = date

\* the message is an open record that clean_until passes over
ToSkip(parsed, date) == parsed.ok /\ parsed.v.open /\ parsed.v.date <= date

ParsedAll(messages) == [i \in 1..Len(messages) |-> ParseMessage(messages[i]).v]

\* C30: the clean of a date leaves the channel it found without the closed
\* records of that date, the clean until a date without the closed records
\* up to that date; every other message stays, in its order, and clean_until
\* lists the open records up to the date that it passed over.
C30_CleanKeepsOpen ==
    last.op \in {"clean_given", "clean_until"} =>
        /\ last.err = ""
        /\ readonly = SelectSeq(arg.before,
                                LAMBDA m : ~ToClean(ParseMessage(m), arg.date,
                                                    last.op = "clean_until"))
        /\ last.op = "clean_until" =>
               result.skipped = ParsedAll(SelectSeq(arg.before,
                                                    LAMBDA m : ToSkip(ParseMessage(m), arg.date)))

\* clean until 09/24 found a closed and an open record, deleted the one and
\* listed the other
C30_Witness ==
    /\ last.op = "clean_until" /\ arg.date = 24
    /\ Len(arg.before) = 2
    /\ Len(readonly) = 1
    /\ Len(result.skipped) = 1

(***************************************************************************)
(* The claims about the schedule commands.                                 *)
(***************************************************************************)
\* the channel held an open record of the date d
IsOpenOn(parsed, d) == parsed.ok /\ parsed.v.open /\ parsed.v.date = d
OpenDated(messages, d) == \E i \in 1..Len(messages) : IsOpenOn(ParseMessage(messages[i]), d)

\* C31: clean_given(date) returns true exactly if it left an open record of
\* the date in place, and the command answers 'Unable to clean' exactly then
\* and 'Cleaned schedule' otherwise.
C31_CleanAnswer ==
    last.op = "clean_given" =>
        /\ result.still_open <=> OpenDated(arg.before, arg.date)
        /\ result.response = CleanResponse(OpenDated(arg.before, arg.date))

\* the clean of 09/23 found the open schedule of 09/23, left it in place and
\* answered 'Cleaned schedule'
C31_FailingInput ==
    /\ last.op = "clean_given" /\ arg.date = 23
    /\ OpenDated(arg.before, 23)
    /\ OpenDated(readonly, 23)
    /\ ~result.still_open
    /\ result.response = "Cleaned schedule"

\* C31 where no open record of the date was found
CleanAnswerClosed ==
    (last.op = "clean_given" /\ ~OpenDated(arg.before, arg.date)) => C31_CleanAnswer

\* the fresh schedule of the date, as the channel shows it
Fresh(date) == Content(ScheduleNew(date, <<>>, TRUE).v)

\* the cache as open_given found it but for the date written
CacheBut(date) == \A d \in DOMAIN schedule_cache \ {date} : schedule_cache[d] = None

\* C32: on a date that can host a schedule, open_given without force
\* returns None and leaves the channel and the cache as they were when a
\* record of the date that matches the state filter exists; with force it
\* writes the freshly generated schedule, all slots free, over one such
\* record and nothing else; without such a record it appends exactly one
\* record, the fresh schedule.
C32_OpenGiven ==
    result.kind = "open" =>
        /\ result.out.ok
        /\ IF Sought(arg.channel, arg.date, arg.opened) = {}
           THEN /\ readonly = Append(arg.channel, Fresh(arg.date))
                /\ result.returned # None
           ELSE IF result.force
           THEN /\ \E i \in Sought(arg.channel, arg.date, arg.opened) :
                      readonly = [arg.channel EXCEPT ![i] = Fresh(arg.date)]
                /\ result.returned # None
                /\ \A t \in 1..Len(result.returned.schedule.tables) :
                      \A k \in 1..Len(result.returned.schedule.tables[t].timeslots) :
                          IsFree(result.returned.schedule.tables[t].timeslots[k])
           ELSE /\ readonly = arg.channel
                /\ result.returned = None
                /\ \A d \in DOMAIN schedule_cache : schedule_cache[d] = None

\* open_given with force and state=False found the closed schedule of the
\* 23rd behind a message that is no schedule and wrote the fresh one over it
C32_Witness ==
    /\ result.kind = "open" /\ result.force
    /\ arg.opened = {FALSE}
    /\ Len(arg.channel) >= 2
    /\ arg.channel[1] = <<"x">>
    /\ arg.channel[2] = Content(Schedule(23, <<>>, FALSE))
    /\ readonly[2] = Fresh(23)
    /\ Len(readonly) = Len(arg.channel)


\* an open record dated up to d
OpenUpTo(parsed, d) == parsed.ok /\ parsed.v.open /\ parsed.v.date <= d
\* a closed record dated up to d
ClosedUpTo(parsed, d) == parsed.ok /\ ~parsed.v.open /\ parsed.v.date <= d
\* an open record dated after d
OpenAfter(parsed, d) == parsed.ok /\ parsed.v.open /\ parsed.v.date > d
\* the open records dated after d, as the channel shows them
LaterOpen(messages, d) == SelectSeq(messages, LAMBDA m : OpenAfter(ParseMessage(m), d))
IsPrefix(a, b) == Len(a) <= Len(b) /\ SubSeq(b, 1, Len(a)) = a

\* C33: a nightly run that ended before its end closed and cleaned nothing:
\* it left the records it found as they were and only added records.  A
\* run that completed left no open record dated up to today - close_behind
\* and no closed record dated up to today - clean_behind, left the open
\* records dated after today - close_behind as they were, reservations
\* included, and left the cache as the channel is.
C33_NightlyOrder ==
    last.op = "nightly" =>
        IF last.err # "" THEN IsPrefix(arg.before, readonly)
        ELSE /\ \A i \in 1..Len(readonly) :
                   /\ ~OpenUpTo(ParseMessage(readonly[i]), arg.today - arg.input.close_behind)
                   /\ ~ClosedUpTo(ParseMessage(readonly[i]), arg.today - arg.input.clean_behind)
             /\ IsPrefix(LaterOpen(arg.before, arg.today - arg.input.close_behind),
                         LaterOpen(readonly, arg.today - arg.input.close_behind))
             /\ Coherent

\* the nightly run of Monday the 25th with close_behind 1 and clean_behind 2
\* found the closed schedule of the 23rd and the open one of the 24th: it
\* opened the 25th, closed the 24th and removed the 23rd
C33_Witness ==
    /\ last.op = "nightly" /\ last.err = ""
    /\ arg.today = 25 /\ arg.input.open_ahead = 0
    /\ arg.input.close_behind = 1 /\ arg.input.clean_behind = 2
    /\ arg.before = <<Content(Schedule(23, <<>>, FALSE)), Fresh(24)>>
    /\ Len(readonly) = 2
    /\ readonly[2] = Fresh(25)
    /\ ~ParseMessage(readonly[1]).v.open /\ ParseMessage(readonly[1]).v.date = 24

\* the nightly run of Saturday the 23rd with close_behind 1 left the
\* reservation of member 1 on the 23rd as it was
NightlyKeepsReservation ==
    /\ last.op = "nightly" /\ last.err = ""
    /\ arg.today = 23 /\ arg.input.close_behind = 1
    /\ arg.before = <<Reserved>>
    /\ readonly[1] = Reserved


\* the weekday of the date has an entry in the configuration
Configured(d) == DayIndex(DayFromDate(d)) \in ConfigDays
\* the last date of the window of the run
WindowEnd == IF last.op = "nightly" THEN arg.today + arg.input.open_ahead ELSE arg.input.date

\* C37: open_until, in the nightly run and in the open command, returns
\* and leaves a record of every date from today to the end whose weekday
\* is configured, whatever the weekdays of the other dates of the window.
C37_OpenUntilSkips ==
    last.op \in {"nightly", "open_until"} =>
        /\ last.err = ""
        /\ \A d \in arg.today..WindowEnd : Configured(d) => Persisted(d)

\* the nightly run of Friday the 22nd with open_ahead 1 ended with the
\* ValueError of the schedule of a Friday and left no record of Saturday
\* the 23rd
C37_FailingInput ==
    /\ last.op = "nightly"
    /\ arg.today = 22 /\ arg.input.open_ahead = 1
    /\ arg.before = <<Fresh(24)>>
    /\ last.err = "ValueError"
    /\ readonly = arg.before
    /\ ~Persisted(23)

\* the nightly run of Monday the 25th with open_ahead 1 and close_behind 1
\* opened the 25th, ended on Tuesday the 26th and left the 24th open
NightlyStopped ==
    /\ last.op = "nightly"
    /\ arg.today = 25 /\ arg.input.open_ahead = 1 /\ arg.input.close_behind = 1
    /\ arg.before = <<Fresh(24)>>
    /\ last.err = "ValueError"
    /\ readonly = <<Fresh(24), Fresh(25)>>

\* when every weekday of the window is configured open_until returns and
\* leaves a record of every date of the window
WindowConfigured ==
    (/\ last.op \in {"nightly", "open_until"}
     /\ \A d \in arg.today..WindowEnd : Configured(d))
        => /\ last.err = ""
           /\ \A d \in arg.today..WindowEnd : Persisted(d)


\* the records of the date on the channel
RecordsDated(d) == {i \in 1..Len(readonly) : RecordDated(ParseMessage(readonly[i]), d)}
\* the open records of the date on the channel
OpenRecordsDated(d) == {i \in 1..Len(readonly) : IsOpenOn(ParseMessage(readonly[i]), d)}

\* C34: the channel holds one record of a date at most.
C34_OneRecordPerDate == \A d \in Dates : Cardinality(RecordsDated(d)) <= 1

\* open 09/23/2023, close 09/23/2023, open 09/23/2023: the closed schedule
\* of the 23rd and a new open one
C34_FailingInput ==
    /\ last.op = "open" /\ last.err = ""
    /\ Len(readonly) = 2
    /\ ClosedUpTo(ParseMessage(readonly[1]), 23) /\ ParseMessage(readonly[1]).v.date = 23
    /\ readonly[2] = Fresh(23)

\* the channel holds one open record of a date at most
OneOpenPerDate == \A d \in Dates : Cardinality(OpenRecordsDated(d)) <= 1


\* C35: straight after a successful accept of a record, a request or a
\* cancel, an accept of the same record ends with a validation error, which
\* leaves the channel as it is.
C35_AcceptOnce ==
    (last.op \in {"accept_request", "accept_cancel"} /\ last.err = "" /\ Len(data) = 1)
        => accept(readonly, data[1]) = Raise("ValidationError")

\* the request of member 1 for the game "a:b" was accepted, and an accept
\* of the same record succeeds again
C35_FailingInput ==
    /\ last.op = "accept_request" /\ last.err = ""
    /\ Len(data) = 1
    /\ data[1].game = GameAB
    /\ accept(readonly, data[1]).ok

\* with a game free of ':' the second accept of the record is refused
AcceptOncePlain ==
    (/\ last.op \in {"accept_request", "accept_cancel"} /\ last.err = "" /\ Len(data) = 1
     /\ data[1].action = "request" => data[1].game # GameAB)
        => accept(readonly, data[1]) = Raise("ValidationError")

\* C36: a request and a cancel leave the channel of the schedules and the
\* cache as they were, and add at most one record to the data channel.
C36_RequestsWriteNothing ==
    [][last'.op \in {"request", "cancel"}
          => /\ readonly' = readonly
             /\ schedule_cache' = schedule_cache
             /\ \/ data' = data
                \/ \E record \in {data'[Len(data')]} : data' = Append(data, record)]_vars

\* the request of member 2 for the free slot of the 23rd was issued: the
\* data channel holds its record and the schedule shows the slot free
C36_Witness ==
    /\ last.op = "request" /\ last.err = ""
    /\ Len(data) = 1 /\ data[1].author_id = FormatInt(2)
    /\ readonly = <<Fresh(23)>>


\* C38: on the slot that timeslot_mark_as_owned left,
\* timeslot_is_owned_by_author holds for the same author and opponents and
\* the slot is not free.
C38_MarkedIsOwned ==
    (result # None /\ result.kind = "mark") => result.out.owned /\ ~result.out.free

\* member 1 was marked as the owner of a free slot, without opponents: the
\* slot holds the identifier as an integer and is not owned by member 1
C38_FailingInput ==
    /\ result # None /\ result.kind = "mark"
    /\ arg.author = 1 /\ arg.opponents = <<>> /\ arg.slot.participants = <<>>
    /\ result.out.slot.participants = <<IntP(1)>>
    /\ ~result.out.owned

\* the slot that timeslot_mark_as_owned left is not free, and once written
\* and read again it is owned by the author and the opponents
MarkedReadIsOwned ==
    (result # None /\ result.kind = "mark") =>
        /\ ~result.out.free
        /\ timeslot_is_owned_by_author(arg.author, arg.opponents,
                                       SlotDeserialize(SlotStr(result.out.slot)).v)


\* the name of the participant field is in the slot, as written or without
\* the escape tokens around it
Kept(slot, name) ==
    \E i \in 1..Len(slot.participants) :
        slot.participants[i].s \in {name, DetokenizeKeeping(name)}

\* C39: ScheduleSlot.deserialize of a slot line with participants raises a
\* format error or gives a slot that is not free and holds every participant
\* of the line.
C39_ParticipantKept ==
    (result # None /\ result.kind = "line") =>
        \/ result.out = Raise("ValueError")
        \/ /\ result.out.ok
           /\ ~IsFree(result.out.v)
           /\ \A k \in 1..Len(arg.names) : Kept(result.out.v, arg.names[k])

\* the line '1:00pm: ab' was read as a free slot
C39_FailingInput ==
    /\ result # None /\ result.kind = "line"
    /\ arg.raw = <<"1", ":", "0", "0", "p", "m", ":", SP, "a", "b">>
    /\ result.out.ok
    /\ IsFree(result.out.v)

\* the line '1:00pm: %1%, cd' was read as the slot of member 1 alone
SecondaryDropped ==
    /\ result # None /\ result.kind = "line"
    /\ arg.names = <<Wrapped(One), <<"c", "d">>>>
    /\ result.out.ok
    /\ result.out.v.participants = <<StrP(One)>>

\* the participants wrapped in the escape token and those of one character
\* are kept
WrappedKept ==
    (/\ result # None /\ result.kind = "line"
     /\ \A k \in 1..Len(arg.names) :
           Len(arg.names[k]) = 1 \/ arg.names[k] # DetokenizeKeeping(arg.names[k]))
        => /\ result.out.ok
           /\ ~IsFree(result.out.v)
           /\ \A k \in 1..Len(arg.names) : Kept(result.out.v, arg.names[k])


\* C40: a >= b exactly when a > b or a == b, and a <= b exactly when
\* a < b or a == b; so a >= a and a <= a.
C40_NonStrictAgrees ==
    (result # None /\ result.kind = "order") =>
        /\ result.out.ge <=> (result.out.gt \/ result.out.eq)
        /\ result.out.le <=> (result.out.lt \/ result.out.eq)

\* a time was compared with itself and a >= a is false
C40_FailingInput ==
    /\ result # None /\ result.kind = "order"
    /\ arg.a = arg.b
    /\ result.out.eq /\ result.out.le
    /\ ~result.out.ge

\* a <= b exactly when a < b or a == b, and between different times a >= b
\* exactly when a > b
LessOrEqualAgrees ==
    (result # None /\ result.kind = "order") =>
        /\ result.out.le <=> (result.out.lt \/ result.out.eq)
        /\ ~result.out.eq => (result.out.ge <=> result.out.gt)

====
